SPECIFICATION Spec
CONSTANTS
    Reqs = {r1, r2}
    Colunas = {fazer, feito}
    MaxIds = 2
    MaxOrdem = 3
    Pedidas = {1}
    Editadas = {2}
    SemOrdem = SemOrdem
    Ausente = Ausente
    Intacta = Intacta
SYMMETRY Simetria
PROPERTY CommitSoMudaOSeuOuDesloca
