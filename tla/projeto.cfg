SPECIFICATION Spec
CONSTANTS
    c1 = c1
    c2 = c2
    Reqs = {r1, r2}
    Colunas = {c1, c2, c3}
    Padrao <- DuasColunas
    Tarefas = {t1}
    MaxOrdem = 3
    MaxPedidos = 3
    Pessoas = {p1, p2}
    Dono = Dono
    Ausente = Ausente
SYMMETRY Simetria
INVARIANTS TypeOK
PROPERTIES ColunasCoerentesSeSozinha TarefaSoDevolvidaAOndeFoiLida UltimoAdminNaoSeRebaixa
