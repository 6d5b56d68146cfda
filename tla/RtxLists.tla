------------------------------ MODULE RtxLists ------------------------------
(***************************************************************************)
(* The lists RTX schedules by (rt_List.c, rt_Task.c, rt_Robin.c): the      *)
(* ready list, ordered by priority, and the delay list, in which a task    *)
(* has only the ticks it is due after the one before it.  A kernel state   *)
(* is the running task, both lists, and the round robin's clock.           *)
(***************************************************************************)
EXTENDS Integers, SequencesExt

CONSTANTS
  Prio,   \* the priority of each task
  Robin   \* OS_ROBINTOUT, 5

NoTask == "none"
Forever == 65535 \* osWaitForever, as rt_ms2tick hands it on

(* How many entries of a list come before the first that fails Test.       *)
Leading(list, Test(_)) ==
  Cardinality({i \in DOMAIN list : \A j \in 1 .. i : Test(j)})

(* rt_put_prio: behind the tasks of the same priority                      *)
PutPrio(rdy, t) ==
  InsertAt(rdy, 1 + Leading(rdy, LAMBDA i : Prio[t] <= Prio[rdy[i]]), t)

-----------------------------------------------------------------------------
(* An entry's `after' is the delta_time of the entry before it, os_dly's   *)
(* for the first.                                                          *)
Entry(t, after) == [task |-> t, after |-> after]
DueIn(dly, i) == FoldSeq(LAMBDA e, sum : e.after + sum, 0, SubSeq(dly, 1, i))
Sooner(dly, i, ticks) == [dly EXCEPT ![i].after = @ - ticks]

(* rt_put_dly: before the tasks that are due at the same time              *)
PutDly(dly, t, ticks) ==
  LET n == Leading(dly, LAMBDA i : DueIn(dly, i) < ticks)
      after == ticks - DueIn(dly, n)
  IN InsertAt(IF n < Len(dly) THEN Sooner(dly, n + 1, after) ELSE dly,
              n + 1, Entry(t, after))

(* rt_rmv_dly: the next entry takes over the removed one's ticks           *)
RmvDly(dly, t) ==
  LET n == Leading(dly, LAMBDA i : dly[i].task # t)
  IN IF n = Len(dly) THEN dly
     ELSE RemoveAt(IF n + 1 < Len(dly) THEN Sooner(dly, n + 2, -dly[n + 1].after) ELSE dly, n + 1)

-----------------------------------------------------------------------------
Kernel(run, rdy, dly, robin, until, time) ==
  [run |-> run, rdy |-> rdy, dly |-> dly, robin |-> robin, until |-> until, time |-> time]

(* rt_get_first and rt_switch_req *)
RunFirst(k) == [k EXCEPT !.run = Head(k.rdy), !.rdy = Tail(k.rdy)]

(* rt_block: with a timeout the running task is in the delay list as well  *)
Block(k, timeout) ==
  IF timeout = 0 THEN k
  ELSE RunFirst(IF timeout = Forever THEN k ELSE [k EXCEPT !.dly = PutDly(@, k.run, timeout)])

(* rt_dispatch of a task that was waiting, after rt_rmv_dly                *)
Release(k, t) ==
  LET timed == [k EXCEPT !.dly = RmvDly(@, t)]
  IN IF Prio[t] > Prio[k.run]
     THEN [timed EXCEPT !.rdy = <<k.run>> \o @, !.run = t]
     ELSE [timed EXCEPT !.rdy = PutPrio(@, t)]

(* rt_chk_robin *)
ChkRobin(k) ==
  LET first == Head(k.rdy)
      seen == IF k.robin = first THEN k
              ELSE [k EXCEPT !.robin = first, !.until = k.time + Robin - 1]
  IN IF seen.until # k.time THEN seen
     ELSE [seen EXCEPT !.robin = NoTask, !.rdy = PutPrio(Tail(@), first)]

(* rt_dec_dly *)
DecDly(k) ==
  IF k.dly = <<>> THEN k
  ELSE LET dly == Sooner(k.dly, 1, 1)
           n == Leading(dly, LAMBDA i : dly[i].after = 0)
       IN [k EXCEPT !.dly = SubSeq(dly, n + 1, Len(dly)),
                    !.rdy = FoldLeft(LAMBDA rdy, e : PutPrio(rdy, e.task), @, SubSeq(dly, 1, n))]

(* rt_systick *)
Systick(k) ==
  LET checked == ChkRobin([k EXCEPT !.rdy = <<k.run>> \o @])
  IN RunFirst(DecDly([checked EXCEPT !.time = @ + 1]))
=============================================================================
