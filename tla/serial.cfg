SPECIFICATION Spec
CONSTANTS
    adm = adm
    ana = ana
    bia = bia
    Nulo = Nulo
    NaoInformado = NaoInformado
    Ausente = Ausente
    Reqs = {r1}
    Usuarios <- MCUsuarios
    RoleOf <- MCRoleOf
    Instantes = {hoje}
    MaxIds = 2
    Formularios <- FormulariosSeriais
    Planilha <- PlanilhaSerial
    Dtos <- DtosSeriais
PROPERTY ImplementaCiclo
PROPERTY RetiradaRegistraSAG
