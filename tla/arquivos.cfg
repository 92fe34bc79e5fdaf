SPECIFICATION Spec
CONSTANTS
    Reqs = {r1, r2}
    Ids <- DuasPastas
    Arquivos = {a1}
    MaxPedidos = 2
    MaxFalhas = 2
    MaxReinicios = 1
    MaxReindexacoes = 1
    Ausente = Ausente
    Removida = Removida
    Operacoes = {o1, o2}
    Enviaveis = {f1}
    MaxSegundo = 2
    MaxOperacoes = 2
    MaxQuedas = 1
    MaxBackupAge = 1
    MaxBackupFiles = 1
    NaoHa = NaoHa
    SemUploads = SemUploads
CHECK_DEADLOCK FALSE
INVARIANTS TypeOK ArquivoEObjetoAndamJuntos IndiceSoErraPorDesvio
PROPERTIES PulaSoSeMudam RestauracaoSoApagaComCopia BackupProntoFica
SYMMETRY Simetria
