---------------------------- MODULE KencPlayback ----------------------------
(***************************************************************************)
(* What an encoder and a decoder promise together                          *)
(* (src/include/kilix_encodec.h, the comments over the two).               *)
(*                                                                         *)
(* Audio is published in numbered epochs, only ever at the end of the      *)
(* newest one.  A listener joins an epoch at its start, hears it frame by  *)
(* frame as far as it likes, and goes on to any later one.  There are no   *)
(* packets here, no PTS, no network state and nothing that can fail.       *)
(***************************************************************************)
EXTENDS Integers, Sequences

CONSTANTS Audio, Epochs, EpochPackets

VARIABLES pushed,   \* what was published, by epoch
          at,       \* the epoch the listener is in: <<>>, or <<e>>
          heard     \* what it has heard of it

playbackVars == <<pushed, at, heard>>

Init ==
    /\ pushed = << >>
    /\ at = << >>
    /\ heard = << >>

\* One more frame of the newest epoch.
Extend(e, pcm) ==
    /\ e \in DOMAIN pushed
    /\ \A f \in DOMAIN pushed : f <= e
    /\ Len(pushed[e]) < EpochPackets
    /\ pushed' = [pushed EXCEPT ![e] = Append(@, pcm)]
    /\ UNCHANGED <<at, heard>>

\* The first frame of a new epoch.
Open(e, pcm) ==
    /\ \A f \in DOMAIN pushed : f < e
    /\ pushed' = [f \in DOMAIN pushed \cup {e} |-> IF f = e THEN <<pcm>> ELSE pushed[f]]
    /\ UNCHANGED <<at, heard>>

\* The listener starts an epoch later than the one it is in ...
Join(e) ==
    /\ e \in DOMAIN pushed
    /\ at # << >> => e > at[1]
    /\ at' = <<e>>
    /\ heard' = <<pushed[e][1]>>
    /\ UNCHANGED pushed

\* ... hears its next frame ...
Continue ==
    /\ at # << >>
    /\ Len(heard) < Len(pushed[at[1]])
    /\ heard' = SubSeq(pushed[at[1]], 1, Len(heard) + 1)
    /\ UNCHANGED <<pushed, at>>

\* ... or is told to start over.
Forget ==
    /\ at' = << >>
    /\ heard' = << >>
    /\ UNCHANGED pushed

Next ==
    \/ \E e \in Epochs, pcm \in Audio : Extend(e, pcm) \/ Open(e, pcm)
    \/ \E e \in Epochs : Join(e)
    \/ Continue
    \/ Forget

Spec == Init /\ [][Next]_playbackVars
=============================================================================
