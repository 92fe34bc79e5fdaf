SPECIFICATION SpecListas
CONSTANTS
    Reqs = {r1, r2}
    MaxNotas = 3
    Chaves = {prazo, aviso}
    Recorrentes = {prazo}
    MaxPedidos = 2
    MaxReinicios = 1
    Ausente = Ausente
    Escritores = {w1, w2}
    Leitores = {l1}
    MaxEscritas = 3
    SemLista = SemLista
INVARIANTS TiposOK NadaFaltaNaTelaQuieta
PROPERTIES ContagemSoErraPorMarcaOuVolta SegundaSoPorCruzamento
PROPERTIES ListaVelhaSoSobNumeroDeVolta ListaAcabaAtual
