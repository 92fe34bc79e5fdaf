SPECIFICATION SpecEntrada
CONSTANTS
    Reqs = {r1, r2}
    Usuarios = {ana}
    Senhas = {s1, s2}
    Limite = 2
    Duracao = 1
    MaxTentativas = 3
    MaxAgora = 1
    Ausente = Ausente
    NaoInformado = NaoInformado
    Verificacoes = {v1, v2}
    Ips = {ip1}
    Validade = 1
    MaxInstante = 3
    MaxContagem = 2
    SemBloqueio = SemBloqueio
SYMMETRY Simetria
INVARIANTS TiposOK ErrosLimitados
PROPERTIES ContaSoVoltaPorAdminOuLeituraAntiga BloqueioSoMudaPorPedidoOuLeituraAntiga
