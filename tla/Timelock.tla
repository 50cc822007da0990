------------------------------- MODULE Timelock -------------------------------
(***************************************************************************)
(* What DelayedRecoveryModule and ParentAuthorityModule promise the members *)
(* of a Safe about an outside authority: it may do nothing that was not    *)
(* public for `delay', that is older than the execution window after it,   *)
(* that somebody entitled to has withdrawn, or that it announced before    *)
(* the members last appointed an authority, were it the same one.          *)
(*                                                                         *)
(* A ticket is an announced action: a record with at least its number, who *)
(* announced it and when.  `standing' holds those that may still happen,   *)
(* `done' those that did.  Generations, action ids and the storage that    *)
(* outlives a rotation are the business of the modules that implement it.  *)
(***************************************************************************)
EXTENDS Naturals

CONSTANTS
    Nobody,         \* the authority of a surrendered power
    Window          \* how long a ticket may be used after its delay

VARIABLES
    now,
    delay,
    authority,
    standing,
    done

vars == <<now, delay, authority, standing, done>>

Init == standing = {} /\ done = {}

New(e) == /\ authority # Nobody
          /\ e.by = authority /\ e.at = now
          /\ \A f \in standing \cup done : f.nonce # e.nonce

\* Members, or the authority itself, may withdraw tickets; a new appointment
\* or a surrender withdraws all of them.
Withdrawn(rest) ==
    \/ authority' = authority /\ standing' \subseteq rest
    \/ authority # Nobody /\ standing' = {}

Tick == now' = now + 1 /\ UNCHANGED <<delay, authority, standing, done>>

Announce ==
    /\ \E e \in standing' : New(e) /\ standing' = standing \cup {e}
    /\ UNCHANGED <<now, delay, authority, done>>

\* What a ticket does may include withdrawing others.
TakeEffect ==
    /\ \E e \in standing :
         /\ now >= e.at + delay
         /\ now <= e.at + delay + Window
         /\ done' = done \cup {e}
         /\ Withdrawn(standing \ {e})
    /\ UNCHANGED <<now, delay>>

\* A power without delay announces and acts at once.
ActAtOnce ==
    /\ delay = 0
    /\ \E e \in done' : New(e) /\ done' = done \cup {e}
    /\ Withdrawn(standing)
    /\ UNCHANGED <<now, delay>>

Withdraw == Withdrawn(standing) /\ UNCHANGED <<now, delay, done>>

Next == Tick \/ Announce \/ TakeEffect \/ ActAtOnce \/ Withdraw

Spec == Init /\ [][Next]_vars

=============================================================================
