SPECIFICATION Spec
CONSTANTS
    Reqs = {r1}
    Colunas = {fazer, feito}
    MaxIds = 3
    MaxOrdem = 4
    Pedidas = {1, 2}
    Editadas = {}
    SemOrdem = SemOrdem
    Ausente = Ausente
    Intacta = Intacta
INVARIANT PosicoesCoerentes
PROPERTY ImplementaQuadro
