------------------------------ MODULE EventLoop ------------------------------
(***************************************************************************)
(* class EventLoop (libsponge/util/eventloop): polls the descriptors of    *)
(* its rules and calls the callbacks of those that are ready.              *)
(*                                                                         *)
(* A loop is a record: the names of its rules in order and, between poll   *)
(* and the end of wait_next_event, what poll reported.  What the rules do  *)
(* to the rest of the program, w, is passed in as operators on w.  Every   *)
(* callback in this program reads or writes its descriptor or loses its    *)
(* interest, so that the busy-wait exception is left out.                  *)
(***************************************************************************)
EXTENDS Naturals, Sequences, SequencesExt

NewEventLoop == [ rules |-> <<>>, asked |-> {}, ready |-> {}, hup |-> {}, at |-> 0 ]

add_rule(loop, rule) == [ loop EXCEPT !.rules = Append(@, rule) ]

Returned(loop) == [ loop EXCEPT !.asked = {}, !.ready = {}, !.hup = {}, !.at = 0 ]

\* Go through the rules: cancel those whose descriptor is at its end (Over), ask
\* the others whether they are interested.
SetUp(loop, w, Over(_, _), Interest(_, _), Cancel(_, _)) ==
    FoldLeft(LAMBDA acc, r :
        IF Over(acc.w, r) THEN [ acc EXCEPT !.w = Cancel(acc.w, r) ]
        ELSE [ acc EXCEPT !.loop.rules = Append(@, r),
                          !.loop.asked = IF Interest(acc.w, r) THEN @ \cup {r} ELSE @ ],
        [ w |-> w, loop |-> [ Returned(loop) EXCEPT !.rules = <<>> ] ], loop.rules)

\* poll: ready are the descriptors that can do what was asked; a hangup is
\* reported even when nothing was asked.
Poll(loop, w, Ready(_, _), Hup(_, _)) ==
    [ loop EXCEPT !.ready = { r \in loop.asked : Ready(w, r) },
                  !.hup = { r \in ToSet(loop.rules) : Hup(w, r) },
                  !.at = 1 ]

NothingToPoll(loop) == loop.asked = {}
TimesOut(loop) == loop.ready = {} /\ loop.hup = {}

\* Mutant: a hangup cancels a rule although there is still something to read.
Defunct_hup(loop, r) == r \in loop.hup \cap loop.asked

\* Only a hangup was reported for what was asked.
Defunct(loop, r) == r \in loop.hup \cap loop.asked /\ r \notin loop.ready

\* The rules that remain to be served, and the next of them.
ToServe(loop) ==
    { k \in loop.at..Len(loop.rules) : Defunct(loop, loop.rules[k]) \/ loop.rules[k] \in loop.ready }
NextRule(loop) == CHOOSE k \in ToServe(loop) : \A j \in ToServe(loop) : k <= j

\* Serve it: [w, loop] after cancelling or calling back (a set of outcomes).
Serve(loop, w, Callback(_, _), Cancel(_, _)) ==
    LET k == NextRule(loop)
        r == loop.rules[k]
    IN  IF Defunct(loop, r)
          THEN { [ w |-> Cancel(w, r),
                   loop |-> [ loop EXCEPT !.rules = RemoveAt(@, k), !.at = k ] ] }
          ELSE { [ w |-> v, loop |-> [ loop EXCEPT !.at = k + 1 ] ] : v \in Callback(w, r) }

=============================================================================
