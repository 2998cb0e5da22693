----------------------------- MODULE SingleFlight -----------------------------
(***************************************************************************)
(* The promise behind CheckinScheduler._checkin_inflight, without event    *)
(* loop, semaphore, cache or network: passengers board flights, at most    *)
(* one flight per destination is boarding or in the air at any moment, and *)
(* everybody aboard a flight leaves it only after it has landed.           *)
(*                                                                         *)
(* A passenger is a pair <<caller, uid>>, a destination a pair             *)
(* <<uid, day>>; a flight is named by the passenger that opened it.        *)
(***************************************************************************)
CONSTANTS Passengers, Destinations, NoFlight

VARIABLES
  open,      \* destination -> its flight, or NoFlight
  aboard,    \* passenger -> the flight boarded, or NoFlight
  landed,    \* the flights that have landed
  left       \* the passengers that have left their flight

vars == <<open, aboard, landed, left>>

Flights == {f \in Passengers : aboard[f] = f}
Flying  == Flights \ landed

Init ==
  /\ open = [d \in Destinations |-> NoFlight]
  /\ aboard = [p \in Passengers |-> NoFlight]
  /\ landed = {}
  /\ left = {}

(* A passenger opens a flight only when the destination has none ...       *)
Open(p, d) ==
  /\ aboard[p] = NoFlight /\ p \notin left
  /\ d[1] = p[2]
  /\ open[d] = NoFlight
  /\ open' = [open EXCEPT ![d] = p]
  /\ aboard' = [aboard EXCEPT ![p] = p]
  /\ UNCHANGED <<landed, left>>

(* ... and otherwise boards the one there is.                              *)
Board(p, d) ==
  /\ aboard[p] = NoFlight /\ p \notin left
  /\ d[1] = p[2]
  /\ open[d] # NoFlight
  /\ aboard' = [aboard EXCEPT ![p] = open[d]]
  /\ UNCHANGED <<open, landed, left>>

Land(f) ==
  /\ f \in Flying
  /\ landed' = landed \cup {f}
  /\ UNCHANGED <<open, aboard, left>>

(* The passenger that opened the flight clears the destination on leaving. *)
Leave(p) ==
  /\ p \notin left
  /\ aboard[p] \in landed
  /\ left' = left \cup {p}
  /\ open' = [d \in Destinations |->
                IF open[d] = p THEN NoFlight ELSE open[d]]
  /\ UNCHANGED <<aboard, landed>>

(* A passenger gives up before boarding.                                   *)
StayHome(p) ==
  /\ aboard[p] = NoFlight /\ p \notin left
  /\ left' = left \cup {p}
  /\ UNCHANGED <<open, aboard, landed>>

(* The process dies: every flight is down, nobody is aboard any more.      *)
Shutdown ==
  /\ open' = [d \in Destinations |-> NoFlight]
  /\ landed' = landed \cup Flying
  /\ left \subseteq left'
  /\ left' \subseteq Passengers
  /\ {p \in Passengers : aboard[p] # NoFlight} \subseteq left'
  /\ UNCHANGED aboard

Next ==
  \/ \E p \in Passengers, d \in Destinations : Open(p, d) \/ Board(p, d)
  \/ \E p \in Passengers : Land(p) \/ Leave(p) \/ StayHome(p)
  \/ Shutdown

Spec == Init /\ [][Next]_vars
================================================================================
