-------------------------------- MODULE Copias --------------------------------
(***************************************************************************)
(* BackupService: the full backup (a dump of the database and a copy of    *)
(* uploads/ in one archive), the backup of the desarquivamentos, the       *)
(* restore, and the cleaning of old backups, several at once, with the     *)
(* users going on and the process dying anywhere.                          *)
(*                                                                         *)
(* All of them share one directory and no lock, and name their files after *)
(* the second they were asked in.  The program looks a file up and opens   *)
(* it later; psql and tar are other processes, whose work is done in part  *)
(* when they fail.                                                         *)
(***************************************************************************)
EXTENDS Naturals, FiniteSets

CONSTANTS
    Operacoes,      \* operations that may be in progress at one time
    Enviaveis,      \* files that users may upload
    MaxSegundo,     \* bound: the clock
    MaxOperacoes,   \* bound: operations in all
    MaxQuedas,      \* bound: deaths of the process
    MaxBackupAge,   \* maxBackupDays, in ticks of the clock
    MaxBackupFiles,
    NaoHa,          \* no such file
    SemUploads      \* there is no directory uploads/

ASSUME LimitesDeCopias ==
    /\ MaxSegundo \in Nat \ {0} /\ MaxOperacoes \in Nat /\ MaxQuedas \in Nat
    /\ MaxBackupAge \in Nat /\ MaxBackupFiles \in Nat \ {0}

VARIABLES
    banco,          \* the groups of tables that hold their data
    uploads,        \* the files in uploads/
    enviados,       \* the names of files used so far
    diretorio,      \* the directory of backups
    operacoes,      \* what each operation in progress holds
    limpas,         \* history: the copies of uploads/ that cleanings have removed
    segundo, chegadas, quedas

relogio == << segundo, chegadas, quedas >>
varsCopias == << banco, uploads, enviados, diretorio, operacoes, limpas, relogio >>

\* The tables a backup of the desarquivamentos has, and the others.
Grupos == {"desarquivamentos", "demais"}
Segundos == 1 .. MaxSegundo

\* A name is a kind and a second; copies of uploads/ have milliseconds, and no two of
\* them the same name.
Nomes == ({"full.sql", "full.tar.gz", "desarquivamentos.sql", "temp"} \X Segundos)
            \cup ({"uploads_old"} \X (1 .. MaxOperacoes))

\* What a file or a directory of the backups holds, at most: a dump may be there in part.
\* History: pronto is the second in which the backup was asked that was answered with
\* success, 0 as long as none was.
Copia == [ banco: SUBSET Grupos, uploads: SUBSET Enviaveis, mtime: Segundos,
           pronto: 0 .. MaxSegundo ]

ASSUME SentinelasDeCopias ==
    NaoHa \notin Copia \cup Nomes /\ \A fs \in SUBSET Enviaveis : fs # SemUploads

Parada == [passo |-> "parada"]

\* depois if a cleaning follows; extraido what a restore has unpacked, or reads; lista what a
\* cleaning is about to remove by one of its three policies. History: pedido is the
\* second it was asked in; novos the files that came to uploads/ since.
Operacao ==
    [ faz: {"full", "desarquivamentos", "restaurar", "limpar"},
      passo: { "exportar", "copiar", "compactar", "arrumar", "extrair", "truncar",
               "derrubar", "carregar", "guardar", "esvaziar", "repor", "listar", "remover" },
      s: Segundos, pedido: Segundos, numero: 1 .. MaxOperacoes, depois: BOOLEAN,
      alvo: Nomes \cup {NaoHa}, extraido: Copia \cup {NaoHa},
      politica: 1 .. 3, lista: SUBSET Nomes, novos: SUBSET Enviaveis ]

Ha(n) == diretorio[n] # NaoHa
Presentes(s) == IF s = SemUploads THEN {} ELSE s

\* The process starts, with no backup at all, or with one that was made just before.
InitCopias ==
    /\ banco = Grupos
    /\ uploads \in {SemUploads, {}} /\ enviados = {}
    /\ \E prontas \in { {}, {<< "full.tar.gz", 1 >>} } :
          diretorio = [n \in Nomes |->
             IF n \notin prontas THEN NaoHa
             ELSE [ banco |-> Grupos, uploads |-> {}, mtime |-> 1, pronto |-> 1 ]]
    /\ operacoes = [o \in Operacoes |-> Parada] /\ limpas = {}
    /\ segundo = 1 /\ chegadas = 0 /\ quedas = 0

-----------------------------------------------------------------------------
\* The operation o, asked now; its names have the second it was asked in.
\* Mutant: a timestamp cut one digit too short.
CarimboCurto(seg) == 1
Carimbo(seg) == seg

Comecar(o, faz, passo, alvo, depois) ==
    /\ operacoes[o] = Parada /\ chegadas < MaxOperacoes
    /\ chegadas' = chegadas + 1
    /\ operacoes' = [operacoes EXCEPT ![o] =
          [ faz |-> faz, passo |-> passo, s |-> Carimbo(segundo), pedido |-> segundo,
            numero |-> chegadas + 1, depois |-> depois, alvo |-> alvo,
            extraido |-> NaoHa, politica |-> 1, lista |-> {}, novos |-> {} ]]
    /\ UNCHANGED << limpas, segundo, quedas >>

Ir(o, passo) == operacoes' = [operacoes EXCEPT ![o].passo = passo]

\* The end of an operation: of a scheduled backup and of a restore, finally the
\* cleaning.
AoFim(p) ==
    IF p.depois THEN [p EXCEPT !.faz = "limpar", !.passo = "listar", !.depois = FALSE,
                               !.alvo = NaoHa, !.extraido = NaoHa, !.novos = {}]
    ELSE Parada
Terminar(o) == operacoes' = [operacoes EXCEPT ![o] = AoFim(@)]

-----------------------------------------------------------------------------
(* The backups. *)

Sql(p) == << IF p.faz = "full" THEN "full.sql" ELSE "desarquivamentos.sql", p.s >>
Tar(p) == << "full.tar.gz", p.s >>
Temp(p) == << "temp", p.s >>
Exportado(faz) == IF faz = "full" THEN banco ELSE banco \cap {"desarquivamentos"}

\* By the schedule or by POST: the file of the dump is opened, and emptied if it is there.
PedirBackup(o, faz, agendado) ==
    /\ Comecar(o, faz, "exportar", NaoHa, agendado)
    /\ diretorio' = [diretorio EXCEPT ![Sql(operacoes'[o])] =
          [ banco |-> Exportado(faz), uploads |-> {}, mtime |-> segundo, pronto |-> 0 ]]
    /\ UNCHANGED << banco, uploads, enviados >>

\* pg_dump has ended well: it has the tables as they were at one moment, or a part of them
\* if another dump goes to the same file. Without uploads/, and for the desarquivamentos,
\* the dump is the backup.
Exportar(o) ==
    LET p == operacoes[o]
        soBanco == p.faz = "desarquivamentos" \/ uploads = SemUploads
    IN  /\ p.passo = "exportar" /\ Ha(Sql(p))
        /\ diretorio' = [diretorio EXCEPT ![Sql(p)] =
              [ banco |-> Exportado(p.faz), uploads |-> {}, mtime |-> segundo,
                pronto |-> IF soBanco THEN p.pedido ELSE 0 ]]
        /\ IF soBanco THEN Terminar(o) ELSE Ir(o, "copiar")
        /\ UNCHANGED << banco, uploads, enviados, limpas, relogio >>

\* The dump and uploads/ go to a directory of their own.
CopiarUploads(o) ==
    LET p == operacoes[o]
    IN  /\ p.passo = "copiar" /\ Ha(Sql(p))
        /\ diretorio' = [diretorio EXCEPT ![Temp(p)] =
              [diretorio[Sql(p)] EXCEPT !.uploads = Presentes(uploads), !.pronto = 0]]
        /\ Ir(o, "compactar")
        /\ UNCHANGED << banco, uploads, enviados, limpas, relogio >>

Compactar(o) ==
    LET p == operacoes[o]
    IN  /\ p.passo = "compactar" /\ Ha(Temp(p))
        /\ diretorio' = [diretorio EXCEPT ![Tar(p)] =
              [diretorio[Temp(p)] EXCEPT !.mtime = segundo, !.pronto = 0]]
        /\ Ir(o, "arrumar")
        /\ UNCHANGED << banco, uploads, enviados, limpas, relogio >>

\* The directory and the dump are removed, and the archive is there: success.
Arrumar(o) ==
    LET p == operacoes[o]
    IN  /\ p.passo = "arrumar" /\ Ha(Sql(p)) /\ Ha(Tar(p))
        /\ diretorio' = [diretorio EXCEPT ![Temp(p)] = NaoHa, ![Sql(p)] = NaoHa,
                                          ![Tar(p)].pronto = p.pedido]
        /\ Terminar(o)
        /\ UNCHANGED << banco, uploads, enviados, limpas, relogio >>

\* Anything else is an error: what has the backup's names is removed.
FalharBackup(o) ==
    LET p == operacoes[o]
        restos == IF p.faz = "desarquivamentos" THEN {Sql(p)}
                  ELSE {Sql(p), Tar(p)}
                       \cup (IF p.passo = "exportar" THEN {} ELSE {Temp(p)})
    IN  /\ p.passo \in {"exportar", "copiar", "compactar", "arrumar"}
        /\ diretorio' = [n \in Nomes |-> IF n \in restos THEN NaoHa ELSE diretorio[n]]
        /\ Terminar(o)
        /\ UNCHANGED << banco, uploads, enviados, limpas, relogio >>

-----------------------------------------------------------------------------
(* The restore. *)

Restauravel(n) == n[1] \notin {"temp", "uploads_old"}
EhTar(n) == n[1] = "full.tar.gz"

\* POST /backup/restore/:filename, where it is enabled: any backup listed, the dump of
\* one in progress included. Without the file there is nothing but the cleaning.
PedirRestauracao(o, n) ==
    /\ Restauravel(n) /\ Ha(n)
    /\ Comecar(o, "restaurar", IF EhTar(n) THEN "extrair" ELSE "truncar", n, TRUE)
    /\ UNCHANGED << banco, uploads, enviados, diretorio >>

\* The archive is looked through and unpacked.
Extrair(o) ==
    LET p == operacoes[o]
    IN  /\ p.passo = "extrair" /\ Ha(p.alvo)
        /\ operacoes' = [operacoes EXCEPT ![o].passo = "truncar",
                                          ![o].extraido = diretorio[p.alvo]]
        /\ UNCHANGED << banco, uploads, enviados, diretorio, limpas, relogio >>

\* psql runs its statements one by one, and ends well though some of them fail
\* (ON_ERROR_STOP is not set).

\* executePreRestoreTruncate: all tables, whatever the backup has.
Truncar(o) ==
    /\ operacoes[o].passo = "truncar"
    /\ banco' \in SUBSET banco
    /\ Ir(o, "derrubar")
    /\ UNCHANGED << uploads, enviados, diretorio, limpas, relogio >>

\* What psql reads: the dump unpacked, or the file as it is when it is opened.
Fonte(p) == IF p.extraido # NaoHa THEN p.extraido ELSE diretorio[p.alvo]

\* A dump begins with DROP TABLE IF EXISTS of its tables (--clean --if-exists), with what
\* another restore may have put there meanwhile.
DerrubarTabelas(o) ==
    LET p == operacoes[o]
    IN  /\ p.passo = "derrubar" /\ Fonte(p) # NaoHa
        /\ \E caem \in SUBSET Fonte(p).banco : banco' = banco \ caem
        /\ operacoes' = [operacoes EXCEPT ![o].passo = "carregar", ![o].extraido = Fonte(p)]
        /\ UNCHANGED << uploads, enviados, diretorio, limpas, relogio >>

\* Then it makes them, and fills them.
CarregarDump(o) ==
    LET p == operacoes[o]
    IN  /\ p.passo = "carregar"
        /\ \E lidas \in SUBSET p.extraido.banco : banco' = banco \cup lidas
        /\ IF EhTar(p.alvo) THEN Ir(o, "guardar") ELSE Terminar(o)
        /\ UNCHANGED << uploads, enviados, diretorio, limpas, relogio >>

\* The file has gone since it was looked up: nobody listens to the error of the stream,
\* and the process dies.
DumpSumido(o) ==
    /\ operacoes[o].passo = "derrubar" /\ Fonte(operacoes[o]) = NaoHa
    /\ operacoes' = [q \in Operacoes |-> Parada]
    /\ UNCHANGED << banco, uploads, enviados, diretorio, limpas, relogio >>

Guardados(p) == << "uploads_old", p.numero >>

\* restoreUploadsDirectory: uploads/ is copied, then emptied, then filled again.
\* Mutant: uploads/ is not copied.
GuardarNada(o) ==
    /\ operacoes[o].passo = "guardar"
    /\ uploads' = Presentes(uploads)
    /\ Ir(o, "esvaziar")
    /\ UNCHANGED << banco, enviados, diretorio, limpas, relogio >>
GuardarUploads(o) ==
    LET p == operacoes[o]
    IN  /\ p.passo = "guardar"
        /\ diretorio' = [diretorio EXCEPT ![Guardados(p)] =
              IF uploads = SemUploads THEN @
              ELSE [ banco |-> {}, uploads |-> uploads, mtime |-> segundo, pronto |-> 0 ]]
        /\ uploads' = Presentes(uploads)
        /\ Ir(o, "esvaziar")
        /\ UNCHANGED << banco, enviados, limpas, relogio >>

Esvaziar(o) ==
    /\ operacoes[o].passo = "esvaziar"
    /\ uploads' = {}
    /\ Ir(o, "repor")
    /\ UNCHANGED << banco, enviados, diretorio, limpas, relogio >>

\* Files have come to uploads/ while these operations were in progress.
Chegaram(ops, fs) ==
    [q \in Operacoes |-> IF ops[q] = Parada \/ ops[q].faz # "restaurar" THEN ops[q]
                         ELSE [ops[q] EXCEPT !.novos = @ \cup fs]]

Repor(o) ==
    LET p == operacoes[o]
    IN  /\ p.passo = "repor"
        /\ uploads' = uploads \cup p.extraido.uploads
        /\ operacoes' = Chegaram([operacoes EXCEPT ![o] = AoFim(p)], p.extraido.uploads)
        /\ UNCHANGED << banco, enviados, diretorio, limpas, relogio >>

\* An error at any step: psql and the file system may have done a part of it, the DROPs
\* without what follows them.
FalharRestauracao(o) ==
    LET p == operacoes[o]
    IN  \/ /\ p.passo \in {"extrair", "truncar", "derrubar", "carregar", "guardar",
                          "esvaziar"}
           /\ Terminar(o)
           /\ \/ p.passo \in {"extrair", "guardar"} /\ UNCHANGED << banco, uploads >>
              \/ p.passo = "truncar" /\ banco' \in SUBSET banco /\ UNCHANGED uploads
              \/ /\ p.passo = "derrubar" /\ Fonte(p) # NaoHa
                 /\ \E caem \in SUBSET Fonte(p).banco : banco' = banco \ caem
                 /\ UNCHANGED uploads
              \/ /\ p.passo = "carregar"
                 /\ \E lidas \in SUBSET p.extraido.banco : banco' = banco \cup lidas
                 /\ UNCHANGED uploads
              \/ p.passo = "esvaziar" /\ uploads' \in SUBSET uploads /\ UNCHANGED banco
           /\ UNCHANGED << enviados, diretorio, limpas, relogio >>
       \/ /\ p.passo = "repor"
          /\ \E fs \in SUBSET p.extraido.uploads :
                /\ uploads' = uploads \cup fs
                /\ operacoes' = Chegaram([operacoes EXCEPT ![o] = AoFim(p)], fs)
          /\ UNCHANGED << banco, enviados, diretorio, limpas, relogio >>

-----------------------------------------------------------------------------
(* The cleaning. *)

PedirLimpeza(o) ==
    /\ Comecar(o, "limpar", "listar", NaoHa, FALSE)
    /\ UNCHANGED << banco, uploads, enviados, diretorio >>

\* isManagedBackupFilename: backups, dumps in progress and copies of uploads/.
Gerenciadas == { n \in Nomes : n[1] # "temp" /\ Ha(n) }

\* The oldest, so many that those left are at most k.
MaisVelhas(vs) ==
    \A v \in vs, n \in Gerenciadas \ vs : diretorio[v].mtime <= diretorio[n].mtime
Excesso(vs, k) ==
    /\ MaisVelhas(vs)
    /\ IF Cardinality(Gerenciadas) <= k THEN vs = {}
       ELSE Cardinality(Gerenciadas \ vs) = k

\* Sizes are left out: as the third policy goes, the oldest may be any number.
Vitimas(politica, vs) ==
    CASE politica = 1 ->
            vs = { n \in Gerenciadas : segundo - diretorio[n].mtime > MaxBackupAge }
      [] politica = 2 -> Excesso(vs, MaxBackupFiles)
      [] OTHER -> MaisVelhas(vs)

\* One of the policies lists what it will remove.
Listar(o) ==
    LET p == operacoes[o]
    IN  /\ p.passo = "listar"
        /\ \E vs \in SUBSET Gerenciadas :
              /\ Vitimas(p.politica, vs)
              /\ operacoes' = [operacoes EXCEPT ![o].passo = "remover", ![o].lista = vs]
        /\ UNCHANGED << banco, uploads, enviados, diretorio, limpas, relogio >>

\* One entry after the other. A file that has gone is an error, and ends the cleaning;
\* a directory may have gone.
Remover(o) ==
    LET p == operacoes[o]
    IN  /\ p.passo = "remover"
        /\ \/ \E n \in p.lista :
                 /\ diretorio' = [diretorio EXCEPT ![n] = NaoHa]
                 /\ limpas' = IF n[1] = "uploads_old" THEN limpas \cup {n} ELSE limpas
                 /\ operacoes' = [operacoes EXCEPT ![o] =
                       IF Ha(n) \/ n[1] = "uploads_old" THEN [p EXCEPT !.lista = @ \ {n}]
                       ELSE Parada]
           \/ /\ p.lista = {}
              /\ operacoes' = [operacoes EXCEPT ![o] =
                    IF p.politica = 3 THEN Parada
                    ELSE [p EXCEPT !.passo = "listar", !.politica = @ + 1]]
              /\ UNCHANGED << diretorio, limpas >>
        /\ UNCHANGED << banco, uploads, enviados, relogio >>

-----------------------------------------------------------------------------
(* The users, the clock, and the process. *)

\* Storage under uploads/; whoever uploads or deletes is looked up in the database.
EnviarParaUploads(f) ==
    /\ "demais" \in banco /\ f \notin enviados
    /\ uploads' = Presentes(uploads) \cup {f} /\ enviados' = enviados \cup {f}
    /\ operacoes' = Chegaram(operacoes, {f})
    /\ UNCHANGED << banco, diretorio, limpas, relogio >>

ExcluirDeUploads(f) ==
    /\ "demais" \in banco /\ f \in Presentes(uploads)
    /\ uploads' = uploads \ {f}
    /\ UNCHANGED << banco, enviados, diretorio, operacoes, limpas, relogio >>

PassarSegundo ==
    /\ segundo < MaxSegundo
    /\ segundo' = segundo + 1
    /\ UNCHANGED << banco, uploads, enviados, diretorio, operacoes, limpas, chegadas, quedas >>

\* The process dies and is started again; what is on disk stays, and nobody goes on
\* with it.
Cair ==
    /\ quedas < MaxQuedas
    /\ quedas' = quedas + 1
    /\ operacoes' = [o \in Operacoes |-> Parada]
    /\ UNCHANGED << banco, uploads, enviados, diretorio, limpas, segundo, chegadas >>

NextCopias ==
    \/ \E o \in Operacoes :
          \/ \E faz \in {"full", "desarquivamentos"}, agendado \in BOOLEAN :
                PedirBackup(o, faz, agendado)
          \/ Exportar(o)
          \/ CopiarUploads(o)
          \/ Compactar(o)
          \/ Arrumar(o)
          \/ FalharBackup(o)
          \/ \E n \in Nomes : PedirRestauracao(o, n)
          \/ Extrair(o)
          \/ Truncar(o)
          \/ DerrubarTabelas(o)
          \/ CarregarDump(o)
          \/ DumpSumido(o)
          \/ GuardarUploads(o)
          \/ Esvaziar(o)
          \/ Repor(o)
          \/ FalharRestauracao(o)
          \/ PedirLimpeza(o)
          \/ Listar(o)
          \/ Remover(o)
    \/ \E f \in Enviaveis : EnviarParaUploads(f) \/ ExcluirDeUploads(f)
    \/ PassarSegundo
    \/ Cair

SpecCopias == InitCopias /\ [][NextCopias]_varsCopias
-----------------------------------------------------------------------------
CopiasTypeOK ==
    /\ banco \in SUBSET Grupos
    /\ uploads \in (SUBSET Enviaveis) \cup {SemUploads} /\ enviados \in SUBSET Enviaveis
    /\ diretorio \in [Nomes -> Copia \cup {NaoHa}]
    /\ operacoes \in [Operacoes -> {Parada} \cup Operacao]
    /\ limpas \in SUBSET Nomes
    /\ segundo \in Segundos /\ chegadas \in 0 .. MaxOperacoes /\ quedas \in 0 .. MaxQuedas

\* What a restore erases, it has a copy of. The tables are emptied when an archive has
\* been unpacked (a plain dump is read from where it is, and may have gone); when a dump is
\* being loaded, those it has (which another restore may have filled meanwhile). And a file
\* leaves uploads/ because a user deletes it, or is in the copy the restore has taken of
\* uploads/, unless it came while the restore was in progress, or a cleaning has removed
\* that copy.
RestauracaoSoApagaComCopia ==
    [][ /\ banco \ banco' # {} =>
              \E o \in Operacoes :
                 LET p == operacoes[o]
                 IN  \/ p.passo = "truncar" /\ (EhTar(p.alvo) => p.extraido # NaoHa)
                     \/ /\ p.passo = "derrubar" /\ Fonte(p) # NaoHa
                        /\ banco \ banco' \subseteq Fonte(p).banco
        /\ \A f \in Presentes(uploads) \ Presentes(uploads') :
              \/ ExcluirDeUploads(f)
              \/ \E o \in Operacoes :
                    LET p == operacoes[o]
                    IN  /\ p.passo = "esvaziar"
                        /\ \/ f \in p.novos
                           \/ Guardados(p) \in limpas
                           \/ Ha(Guardados(p)) /\ f \in diretorio[Guardados(p)].uploads
      ]_varsCopias

\* A backup that was answered with success stays as it is until a cleaning removes it,
\* or another asked in the same second, and so under the same name, has its way with it:
\* written over it, or removed it because of an error.
BackupProntoFica ==
    [][ \A n \in Nomes :
           /\ Ha(n) /\ diretorio[n].pronto # 0 /\ diretorio'[n] # diretorio[n]
           => \E o \in Operacoes : \E p \in {operacoes[o], operacoes'[o]} \ {Parada} :
                 /\ operacoes'[o] # operacoes[o]
                 /\ \/ p.passo = "remover" /\ n \in p.lista
                    \/ /\ p.faz \in {"full", "desarquivamentos"}
                       /\ p.pedido = diretorio[n].pronto ]_varsCopias
=============================================================================
