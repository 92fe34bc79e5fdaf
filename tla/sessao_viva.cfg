SPECIFICATION SpecJusta
CONSTANTS
    Abas = {a1}
    Chamadas = {c0, c1}
    Renovadoras = {c0}
    Usuarios = {ana}
    MaxEntradas = 1
    MaxRetentativas = 1
    Ninguem = Ninguem
PROPERTIES DesativadaSai RevogadaSai
