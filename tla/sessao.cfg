SPECIFICATION SpecCena
CONSTANTS
    Abas = {a1, a2}
    Chamadas = {c0, c1}
    Renovadoras = {c0}
    Usuarios = {ana, bia}
    MaxEntradas = 2
    MaxRetentativas = 1
    Ninguem = Ninguem
SYMMETRY Simetria
INVARIANTS TypeOK
PROPERTIES TelaSemRenovacaoSoPorPreferencias TelaDeOutroSoPorOutraAbaOuAtraso AcessoAlheioSoPorAtraso
