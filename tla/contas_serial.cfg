SPECIFICATION Spec
CONSTANTS
    Reqs = {r1}
    Usuarios = {ana}
    Senhas = {s1, s2}
    Limite = 3
    Duracao = 2
    MaxTentativas = 5
    MaxAgora = 4
    Ausente = Ausente
    NaoInformado = NaoInformado
PROPERTY ImplementaAcesso
