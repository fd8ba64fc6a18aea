----------------------------- MODULE RedisMemoria -----------------------------
(***************************************************************************)
(* InMemoryRedis (redis_client.py): a dict that stands in for Redis when   *)
(* there is none.  An expired item stays in the dict until a command that  *)
(* looks at its key drops it.  A lock makes each command atomic.           *)
(***************************************************************************)
EXTENDS Integers

CONSTANTS Chaves, MaxTtl, MaxValor, Sempre, Nil

Item == [v: 0..MaxValor, resta: 0..MaxTtl \cup {Sempre}]

ASSUME RedisConstants ==
  /\ MaxTtl \in Nat \ {0} /\ MaxValor \in Nat
  /\ Sempre \notin 0..MaxTtl
  /\ Nil \notin Item \cup 0..MaxValor

VARIABLES
  dados,       \* _data; resta 0: expires_at has passed
  saida        \* the answer of the last command

memoriaVars == <<dados, saida>>

(* _alive(key): also drops an item that has expired.                       *)
Alive(k) == dados[k] # Nil /\ dados[k].resta # 0

Limpo(k) == IF Alive(k) THEN dados[k] ELSE Nil

Guarda(k, v, resta) ==
  dados' = [dados EXCEPT ![k] = [v |-> v, resta |-> resta]]

MGet(k) ==
  /\ saida' = <<"valor", IF Alive(k) THEN dados[k].v ELSE Nil>>
  /\ dados' = [dados EXCEPT ![k] = Limpo(k)]

MSet(k, v, nx, ex) ==
  \/ /\ nx /\ Alive(k)
     /\ saida' = <<"feito", FALSE>>
     /\ UNCHANGED dados
  \/ /\ ~(nx /\ Alive(k))
     /\ saida' = <<"feito", TRUE>>
     /\ Guarda(k, v, IF ex = 0 THEN Sempre ELSE ex)

MSetEx(k, ttl, v) == saida' = <<"feito", TRUE>> /\ Guarda(k, v, ttl)

MIncrSemAlive(k) ==                \* mutant: an expired counter goes on
  LET n == (IF dados[k] # Nil THEN dados[k].v ELSE 0) + 1 IN
  /\ n <= MaxValor
  /\ saida' = <<"valor", n>>
  /\ Guarda(k, n, IF dados[k] # Nil THEN dados[k].resta ELSE Sempre)

MIncr(k) ==
  LET n == (IF Alive(k) THEN dados[k].v ELSE 0) + 1 IN
  /\ n <= MaxValor
  /\ saida' = <<"valor", n>>
  /\ Guarda(k, n, IF Alive(k) THEN dados[k].resta ELSE Sempre)

MExpire(k, ttl) ==
  \/ /\ ~Alive(k)
     /\ saida' = <<"feito", FALSE>>
     /\ dados' = [dados EXCEPT ![k] = Nil]
  \/ /\ Alive(k)
     /\ saida' = <<"feito", TRUE>>
     /\ Guarda(k, dados[k].v, ttl)

MDelete(ks) ==
  /\ saida' = <<"feito", TRUE>>
  /\ dados' = [k \in Chaves |-> IF k \in ks THEN Nil ELSE dados[k]]

(* scan_iter looks at the keys while _alive may drop one: an expired key   *)
(* makes the comprehension raise, after that key has been dropped.         *)
Expiradas == {k \in Chaves : dados[k] # Nil /\ dados[k].resta = 0}

MScan ==
  /\ Expiradas = {}
  /\ saida' = <<"chaves", {k \in Chaves : Alive(k)}>>
  /\ UNCHANGED dados

MScanFalha ==
  /\ saida' = <<"erro", "RuntimeError">>
  /\ \E k \in Expiradas : dados' = [dados EXCEPT ![k] = Nil]

MTempo ==
  /\ dados' = [k \in Chaves |->
       IF dados[k] = Nil \/ Limpo(k) = Nil \/ dados[k].resta = Sempre THEN dados[k]
       ELSE [dados[k] EXCEPT !.resta = @ - 1]]
  /\ UNCHANGED saida

MemoriaInit == dados = [k \in Chaves |-> Nil] /\ saida = <<"valor", Nil>>

Comando ==
  \/ \E k \in Chaves :
       \/ MGet(k) \/ MIncr(k)
       \/ \E v \in 0..MaxValor, ttl \in 1..MaxTtl : MSetEx(k, ttl, v)
       \/ \E v \in 0..MaxValor, ex \in 0..MaxTtl, nx \in BOOLEAN : MSet(k, v, nx, ex)
       \/ \E ttl \in 1..MaxTtl : MExpire(k, ttl)
  \/ \E ks \in SUBSET Chaves : MDelete(ks)
  \/ MScan
  \/ MTempo

(* With the scan that raises, which Redis never does.                      *)
MemoriaNext == Comando \/ MScanFalha

MemoriaSpec == MemoriaInit /\ [][Comando]_memoriaVars

MemoriaScanSpec == MemoriaInit /\ [][MemoriaNext]_memoriaVars

-----------------------------------------------------------------------------
(* Whoever talks to the dict cannot tell it from Redis: lazily dropped     *)
(* items are never seen, counters keep their window, an expired lock can   *)
(* be taken (redis_client.py:50).                                          *)
Redis == INSTANCE RedisTtl WITH
  mapa <- [k \in Chaves |-> Limpo(k)],
  resp <- saida

ComoRedis == Redis!RedisSpec

(* "Cobre o subconjunto usado no caminho da API" (redis_client.py:35): the *)
(* walk over the keys, with which all sessions of a user are revoked, goes *)
(* through.                                                                *)
ScanCompleta == saida # <<"erro", "RuntimeError">>
=============================================================================
