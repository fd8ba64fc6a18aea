------------------------------- MODULE RedisTtl -------------------------------
(***************************************************************************)
(* What the code asks of Redis: a map of keys to values whose keys may     *)
(* have a time to live and are gone once it is over.  Time is counted down *)
(* in the keys.                                                            *)
(***************************************************************************)
EXTENDS Integers

CONSTANTS
  Chaves, MaxTtl,
  MaxValor,    \* bound: what a counter may reach
  Sempre,      \* a key without expiry
  Nil          \* no key

VARIABLES
  mapa,        \* [Chaves -> a value with its remaining time, or Nil]
  resp         \* the answer of the last command

redisVars == <<mapa, resp>>

Restos == 1..MaxTtl \cup {Sempre}

Guardado == [v: 0..MaxValor, resta: Restos]

Valor(k) == IF mapa[k] = Nil THEN Nil ELSE mapa[k].v

Ex(ex) == IF ex = 0 THEN Sempre ELSE ex

Get(k) == resp' = <<"valor", Valor(k)>> /\ UNCHANGED mapa

(* SET, with NX only on a missing key; without EX an old expiry goes.      *)
Set(k, v, nx, ex) ==
  IF nx /\ mapa[k] # Nil
  THEN resp' = <<"feito", FALSE>> /\ UNCHANGED mapa
  ELSE resp' = <<"feito", TRUE>> /\ mapa' = [mapa EXCEPT ![k] = [v |-> v, resta |-> Ex(ex)]]

SetEx(k, ttl, v) ==
  /\ resp' = <<"feito", TRUE>>
  /\ mapa' = [mapa EXCEPT ![k] = [v |-> v, resta |-> ttl]]

(* INCR keeps the expiry a live key has and gives a new one none.          *)
Incr(k) ==
  LET n == IF mapa[k] = Nil THEN 1 ELSE mapa[k].v + 1 IN
  /\ n <= MaxValor
  /\ resp' = <<"valor", n>>
  /\ mapa' = [mapa EXCEPT ![k] =
       [v |-> n, resta |-> IF mapa[k] = Nil THEN Sempre ELSE mapa[k].resta]]

Expire(k, ttl) ==
  IF mapa[k] = Nil
  THEN resp' = <<"feito", FALSE>> /\ UNCHANGED mapa
  ELSE resp' = <<"feito", TRUE>> /\ mapa' = [mapa EXCEPT ![k].resta = ttl]

(* The number of keys removed is not looked at by any caller.              *)
Delete(ks) ==
  /\ resp' = <<"feito", TRUE>>
  /\ mapa' = [k \in Chaves |-> IF k \in ks THEN Nil ELSE mapa[k]]

Scan == resp' = <<"chaves", {k \in Chaves : mapa[k] # Nil}>> /\ UNCHANGED mapa

Passa(x) ==
  CASE x = Nil -> Nil
    [] x # Nil /\ x.resta = Sempre -> x
    [] x # Nil /\ x.resta # Sempre ->
         IF x.resta = 1 THEN Nil ELSE [x EXCEPT !.resta = @ - 1]

Tempo == mapa' = [k \in Chaves |-> Passa(mapa[k])] /\ UNCHANGED resp

RedisInit == mapa = [k \in Chaves |-> Nil] /\ resp = <<"valor", Nil>>

RedisNext ==
  \/ \E k \in Chaves :
       \/ Get(k) \/ Incr(k)
       \/ \E v \in 0..MaxValor, ttl \in 1..MaxTtl : SetEx(k, ttl, v)
       \/ \E v \in 0..MaxValor, ex \in 0..MaxTtl, nx \in BOOLEAN : Set(k, v, nx, ex)
       \/ \E ttl \in 1..MaxTtl : Expire(k, ttl)
  \/ \E ks \in SUBSET Chaves : Delete(ks)
  \/ Scan
  \/ Tempo

RedisSpec == RedisInit /\ [][RedisNext]_redisVars
=============================================================================
