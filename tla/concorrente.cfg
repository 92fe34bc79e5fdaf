SPECIFICATION Spec
CONSTANTS
    adm = adm
    ana = ana
    bia = bia
    Nulo = Nulo
    NaoInformado = NaoInformado
    Ausente = Ausente
    Reqs = {r1, r2}
    Usuarios <- MCUsuarios
    RoleOf <- MCRoleOf
    Instantes = {hoje}
    MaxIds = 1
    Formularios <- FormulariosConcorrentes
    Planilha <- PlanilhaConcorrente
    Dtos <- DtosConcorrentes
INVARIANT TypeOK
INVARIANT IdUnico
INVARIANT CriadorPreservado
PROPERTY FinalSoPorAdminOuLeituraAntiga
PROPERTY SoRestaurarTiraDaLixeira
