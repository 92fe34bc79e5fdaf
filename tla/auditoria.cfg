SPECIFICATION Spec
CONSTANTS
    Escritores = {w1, w2, w3}
    Eventos <- MCEventos
    MaxIds = 4
    MaxLegadas = 1
    Carimbo = Carimbo
    Indefinido = Indefinido
    Nulo = Nulo
    Ninguem = Ninguem
    Ausente = Ausente
SYMMETRY Simetria
INVARIANT TypeOK
INVARIANT ElosEnraizados
INVARIANT IrmaosDeAutoresDistintos
