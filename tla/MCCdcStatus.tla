---------------------------- MODULE MCCdcStatus ----------------------------
(***************************************************************************)
(* The status thread's run, and what RtxTime and the fairness of the other *)
(* modules take from the kernel, evaluated for all small kernel states:    *)
(* three application threads, the log's thread below them, and the idle    *)
(* task.                                                                   *)
(***************************************************************************)
EXTENDS CdcStatus, SequencesExt

Threads == {"main", "can", "sid"}
MCPrio == [t \in Threads \cup {"log", "idle"} |->
             CASE t \in Threads -> 3 [] t = "log" -> 2 [] OTHER -> 0]
MCRobin == 3
Rtx == INSTANCE RtxLists WITH Prio <- MCPrio, Robin <- MCRobin

Orders(S) == UNION {SetToSeqs(T) : T \in SUBSET S}
Times == 0 .. 2

(* All delay lists: in any order, the first due in at least one tick.      *)
DelayLists ==
  UNION {{[i \in DOMAIN order |-> Rtx!Entry(order[i], ticks[i])] :
            ticks \in {f \in [DOMAIN order -> Times] : order # <<>> => f[1] > 0}} :
         order \in Orders(Threads)}
Waiting(dly) == {dly[i].task : i \in DOMAIN dly}
Left(dly) == [t \in Waiting(dly) |->
                Rtx!DueIn(dly, CHOOSE i \in DOMAIN dly : dly[i].task = t)]

InOrder(dly) == \A i \in DOMAIN dly : dly[i].after >= IF i = 1 THEN 1 ELSE 0

(* The delay list is a set of countdowns: entering a task or taking one    *)
(* out, anywhere in the list, changes no other's ticks and keeps the order *)
(* of expiry; a tick takes one off each and readies the ones that are due, *)
(* and no others.                                                          *)
ASSUME DelaysCountDown ==
  \A dly \in DelayLists :
    LET left == Left(dly) IN
    /\ \A t \in Threads \ Waiting(dly), ticks \in 1 .. 7 :
         Left(Rtx!PutDly(dly, t, ticks)) = [u \in Waiting(dly) \cup {t} |-> IF u = t THEN ticks ELSE left[u]]
    /\ \A t \in Threads \ Waiting(dly), ticks \in 1 .. 7 : InOrder(Rtx!PutDly(dly, t, ticks))
    /\ \A t \in Threads :
         LET rest == Rtx!RmvDly(dly, t)
         IN Left(rest) = [u \in Waiting(dly) \ {t} |-> left[u]] /\ InOrder(rest)
    /\ LET k == Rtx!DecDly(Rtx!Kernel("log", <<"idle">>, dly, Rtx!NoTask, 0, 0))
       IN /\ Left(k.dly) = [t \in {u \in Waiting(dly) : left[u] > 1} |-> left[t] - 1]
          /\ ToSet(k.rdy) = {"idle"} \cup {t \in Waiting(dly) : left[t] = 1}

(* Kernel states in which one of the threads runs, the rest of them are    *)
(* ready, and nobody waits; and where the round robin may stand in them.   *)
Kernels ==
  {Rtx!Kernel(Head(order), Tail(order) \o <<"log", "idle">>, <<>>, robin, until, MCRobin) :
     order \in {o \in Orders(Threads) : o # <<>>},
     robin \in Threads \cup {Rtx!NoTask}, until \in 0 .. 2 * MCRobin - 1}
InTime(k) == k.robin = k.run => k.until \in k.time .. k.time + MCRobin - 1

(* The kernel after so many ticks in which nobody blocks.                  *)
After[n \in Nat, k \in Kernels] ==
  IF n = 0 THEN k ELSE Rtx!Systick(After[n - 1, k])

(* Threads of equal priority take turns: whoever is ready runs within      *)
(* Robin ticks for each one before it, although the others never wait.     *)
ASSUME ReadyThreadsTakeTurns ==
  \A k \in {l \in Kernels : InTime(l)} : \A i \in DOMAIN k.rdy :
    k.rdy[i] \in Threads => \E n \in 1 .. MCRobin * i : After[n, k].run = k.rdy[i]

(* One that waits with a timeout runs when that is over, at its turn; one  *)
(* that is released before is not released again by its timeout.           *)
ASSUME TimeoutsEnd ==
  \A k \in {l \in Kernels : InTime(l) /\ Len(l.rdy) > 2}, ticks \in 1 .. 3 :
    LET b == Rtx!Block(k, ticks)
        r == Rtx!Release(b, k.run)
    IN /\ b.run = k.rdy[1] /\ k.run \notin ToSet(b.rdy)
       /\ Left(b.dly)[k.run] = ticks
       /\ r.dly = <<>> /\ r.run = b.run
       /\ Cardinality({i \in DOMAIN r.rdy : r.rdy[i] = k.run}) = 1
=============================================================================
