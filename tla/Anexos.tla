-------------------------------- MODULE Anexos --------------------------------
(***************************************************************************)
(* Files beside rows: the attachments of one vehicle, customer, fine or    *)
(* entry (anexo_service.py), its deletion with all it has (fleet_service,  *)
(* multa_service, finance_service), and the photo of a vehicle             *)
(* (moto_media_service.py).                                                *)
(*                                                                         *)
(* The store is not part of the transaction.  An attachment has a key of   *)
(* its own; the photo's key is fixed by its extension, so two requests for *)
(* one vehicle may save and remove the same file.                          *)
(***************************************************************************)
EXTENDS Naturals, FiniteSets

CONSTANTS
  Anexos,        \* uploads, each with its unique key
  SessoesAnexo,
  Extensoes,     \* .jpg, .png, .webp: the keys a photo may have
  Falhas,        \* bound: times the store fails or a session dies
  SemFoto

ASSUME AnexosConstants == Falhas \in Nat /\ SemFoto \notin Extensoes

VARIABLES
  entidade,   \* the row the attachments belong to
  presa,      \* a row that may not lose it refers to it (manutencoes, cards)
  anexos,     \* rows of anexos
  blobs,      \* their files in the store
  as,         \* the sessions
  foto,       \* imagem_path
  imagens,    \* photo files in the store
  fotografo,  \* the sessions that work on the photo
  intacta,    \* history: no two of them overlapped since one ran alone
  falhas

anexosVars == <<entidade, presa, anexos, blobs, as, foto, imagens, fotografo,
                intacta, falhas>>
deFotos == <<foto, imagens, fotografo, intacta>>
deAnexos == <<entidade, presa, anexos, blobs, as>>

SessaoAnexo == [pc: {"livre", "salvar", "inserir", "apagar", "limpar", "excluir"},
                chaves: SUBSET Anexos,    \* files it still has to write or remove
                linhas: SUBSET Anexos]    \* rows it loaded

Quieta == [pc |-> "livre", chaves |-> {}, linhas |-> {}]

Anda(s, pc, chaves) == as' = [as EXCEPT ![s].pc = pc, ![s].chaves = chaves]

Solta(s) == as' = [as EXCEPT ![s] = Quieta]

Comeca(s, pc, chaves, linhas) ==
  /\ as[s].pc = "livre"
  /\ as' = [as EXCEPT ![s] = [pc |-> pc, chaves |-> chaves, linhas |-> linhas]]

Falha == falhas < Falhas /\ falhas' = falhas + 1

Existentes == {a \in Anexos : anexos[a] = "linha"}

-----------------------------------------------------------------------------
(* upload_anexo: the entity is looked up, the file stored, the row added.  *)
UploadAnexo(s, a) ==
  /\ entidade = "viva"
  /\ anexos[a] = "livre"
  /\ anexos' = [anexos EXCEPT ![a] = "usada"]
  /\ Comeca(s, "salvar", {a}, {})
  /\ UNCHANGED <<entidade, presa, blobs, deFotos, falhas>>

SaveBlob(s) ==
  /\ as[s].pc = "salvar"
  /\ blobs' = blobs \cup as[s].chaves
  /\ Anda(s, "inserir", as[s].chaves)
  /\ UNCHANGED <<entidade, presa, anexos, deFotos, falhas>>

(* Nothing ties the row to the entity: it may be gone by now.              *)
InsertAnexo(s) ==
  /\ as[s].pc = "inserir"
  /\ anexos' = [a \in Anexos |-> IF a \in as[s].chaves THEN "linha" ELSE anexos[a]]
  /\ Solta(s)
  /\ UNCHANGED <<entidade, presa, blobs, deFotos, falhas>>

(* delete_anexo: the row first, then the file.                             *)
DeleteAnexoArquivoAntes(s, a) ==   \* mutant: the file first
  /\ anexos[a] = "linha"
  /\ Comeca(s, "limpar", {a}, {a})
  /\ UNCHANGED <<entidade, presa, anexos, blobs, deFotos, falhas>>

DeleteAnexo(s, a) ==
  /\ anexos[a] = "linha"
  /\ Comeca(s, "apagar", {a}, {a})
  /\ UNCHANGED <<entidade, presa, anexos, blobs, deFotos, falhas>>

CommitDeleteAnexo(s) ==
  /\ as[s].pc = "apagar"
  /\ anexos' = [a \in Anexos |-> IF a \in as[s].linhas THEN "excluida" ELSE anexos[a]]
  /\ Anda(s, "limpar", as[s].chaves)
  /\ UNCHANGED <<entidade, presa, blobs, deFotos, falhas>>

RemoveBlobNunca(s) ==          \* mutant: the file is forgotten
  /\ as[s].pc = "limpar"
  /\ Solta(s)
  /\ UNCHANGED <<entidade, presa, anexos, blobs, deFotos, falhas>>

RemoveBlob(s) ==
  /\ as[s].pc = "limpar"
  /\ blobs' = blobs \ as[s].chaves
  /\ Solta(s)
  /\ UNCHANGED <<entidade, presa, anexos, deFotos, falhas>>

(* delete_anexos_for_entity and the deletion of the entity: all the files, *)
(* each as well as it can, then the rows and the entity in one commit.     *)
DeleteEntity(s) ==
  /\ entidade = "viva"
  /\ Comeca(s, "excluir", Existentes, Existentes)
  /\ UNCHANGED <<entidade, presa, anexos, blobs, deFotos, falhas>>

PurgeBlob(s, a) ==
  /\ as[s].pc = "excluir"
  /\ a \in as[s].chaves
  /\ Anda(s, "excluir", as[s].chaves \ {a})
  /\ \/ blobs' = blobs \ {a} /\ UNCHANGED falhas
     \/ Falha /\ UNCHANGED blobs
  /\ UNCHANGED <<entidade, presa, anexos, deFotos>>

(* A row that refers to the entity and may not be without it fails the     *)
(* commit; a second deletion of the same entity deletes nothing.           *)
CommitDeleteEntity(s) ==
  /\ as[s].pc = "excluir" /\ as[s].chaves = {}
  /\ Solta(s)
  /\ \/ /\ presa
        /\ UNCHANGED <<entidade, anexos>>
     \/ /\ ~presa
        /\ entidade' = "excluida"
        /\ anexos' = [a \in Anexos |->
             IF a \in as[s].linhas THEN "excluida" ELSE anexos[a]]
  /\ UNCHANGED <<presa, blobs, deFotos, falhas>>

(* The store raises, or the process dies.                                  *)
AnexoFalha(s) ==
  /\ as[s].pc # "livre"
  /\ Falha
  /\ Solta(s)
  /\ UNCHANGED <<entidade, presa, anexos, blobs, deFotos>>

(* A maintenance of the vehicle or a saved card of the customer comes or   *)
(* goes.                                                                   *)
Prende ==
  /\ entidade = "viva"
  /\ presa' = ~presa
  /\ UNCHANGED <<entidade, anexos, blobs, as, deFotos, falhas>>

-----------------------------------------------------------------------------
(* save_moto_imagem and delete_moto_imagem: the row is loaded, the file    *)
(* stored, the row committed, the file it named before removed.  `so':     *)
(* no other request for the photo has been under way beside this one.      *)
Fotografo == [pc: {"livre", "salvar", "gravar", "limpar"},
              nova: Extensoes \cup {SemFoto},
              velha: Extensoes \cup {SemFoto}, so: BOOLEAN]

Ausente == [pc |-> "livre", nova |-> SemFoto, velha |-> SemFoto, so |-> TRUE]

Sozinha(s) == \A t \in SessoesAnexo \ {s} : fotografo[t].pc = "livre"

AbreFoto(s, pc, nova) ==
  /\ fotografo[s].pc = "livre"
  /\ fotografo' = [t \in SessoesAnexo |->
       IF t = s
       THEN [pc |-> pc, nova |-> nova, velha |-> foto, so |-> Sozinha(s)]
       ELSE [fotografo[t] EXCEPT !.so = (fotografo[t].pc = "livre")]]
  /\ intacta' = (intacta /\ Sozinha(s))
  /\ UNCHANGED <<deAnexos, foto, imagens, falhas>>

SaveMotoImagem(s, e) == AbreFoto(s, "salvar", e)

DeleteMotoImagem(s) == foto # SemFoto /\ AbreFoto(s, "gravar", SemFoto)

SaveImagem(s) ==
  /\ fotografo[s].pc = "salvar"
  /\ imagens' = imagens \cup {fotografo[s].nova}
  /\ fotografo' = [fotografo EXCEPT ![s].pc = "gravar"]
  /\ UNCHANGED <<deAnexos, foto, intacta, falhas>>

(* A path equal to the one that was loaded is not written.                 *)
CommitFoto(s) ==
  /\ fotografo[s].pc = "gravar"
  /\ foto' = IF fotografo[s].nova = fotografo[s].velha THEN foto
             ELSE fotografo[s].nova
  /\ fotografo' = [fotografo EXCEPT ![s].pc = "limpar"]
  /\ intacta' = (intacta \/ fotografo[s].so)
  /\ UNCHANGED <<deAnexos, imagens, falhas>>

RemoveImagem(s) ==
  /\ fotografo[s].pc = "limpar"
  /\ imagens' = IF fotografo[s].velha = fotografo[s].nova THEN imagens
                ELSE imagens \ {fotografo[s].velha}
  /\ fotografo' = [fotografo EXCEPT ![s] = Ausente]
  /\ UNCHANGED <<deAnexos, foto, intacta, falhas>>

FotoFalha(s) ==
  /\ fotografo[s].pc # "livre"
  /\ Falha
  /\ fotografo' = [fotografo EXCEPT ![s] = Ausente]
  /\ UNCHANGED <<deAnexos, foto, imagens, intacta>>

-----------------------------------------------------------------------------
AnexosInit ==
  /\ entidade = "viva" /\ presa = FALSE
  /\ anexos = [a \in Anexos |-> "livre"]
  /\ blobs = {}
  /\ as = [s \in SessoesAnexo |-> Quieta]
  /\ foto = SemFoto /\ imagens = {} /\ intacta = TRUE
  /\ fotografo = [s \in SessoesAnexo |-> Ausente]
  /\ falhas = 0

AnexosNext ==
  \/ \E s \in SessoesAnexo :
       \/ \E a \in Anexos : UploadAnexo(s, a) \/ DeleteAnexo(s, a) \/ PurgeBlob(s, a)
       \/ SaveBlob(s) \/ InsertAnexo(s) \/ CommitDeleteAnexo(s) \/ RemoveBlob(s)
       \/ DeleteEntity(s) \/ CommitDeleteEntity(s) \/ AnexoFalha(s)
       \/ \E e \in Extensoes : SaveMotoImagem(s, e)
       \/ DeleteMotoImagem(s) \/ SaveImagem(s) \/ CommitFoto(s)
       \/ RemoveImagem(s) \/ FotoFalha(s)
  \/ Prende

AnexosSpec == AnexosInit /\ [][AnexosNext]_anexosVars

-----------------------------------------------------------------------------
(* Files some session still has to write down or remove.                   *)
EmCurso == UNION {as[s].chaves : s \in SessoesAnexo}

(* Without a fault no file is left behind: it has its row or a session     *)
(* that will see to it, whichever uploads and deletions overlap            *)
(* (anexo_service.py:92, :133).                                            *)
SemLixo == falhas = 0 => blobs \subseteq Existentes \cup EmCurso

Excluindo == \E s \in SessoesAnexo : as[s].pc = "excluir"

(* The photo of a vehicle is in the store.  A request that overlaps        *)
(* another may remove the file the other has just saved under the same     *)
(* key (moto_media_service.py:67, :101); the next one that runs alone puts *)
(* it right.                                                               *)
FotoExiste == intacta /\ foto # SemFoto => foto \in imagens

(* What a page shows can be opened, at whichever step an upload or a       *)
(* removal breaks off (anexo_service.py:133, moto_media_service.py:62):    *)
(* the photo, unless two requests for it overlapped; and the file of an    *)
(* attachment, unless the deletion of the whole entity is under way or was *)
(* cut off (anexo_service.py:162).                                         *)
ArquivoAbre ==
  /\ []FotoExiste
  /\ [][\A a \in Existentes \cap blobs : a \in Existentes' =>
          a \in blobs' \/ Excluindo]_anexosVars

(* "uma unica transacao, sem orfaos" (anexo_service.py:148): once the      *)
(* deletion of an entity is over, each attachment has its row and its file *)
(* or neither, if nothing failed.                                          *)
SemOrfaos ==
  falhas = 0 /\ EmCurso = {} /\ ~Excluindo => Existentes \subseteq blobs
=============================================================================
