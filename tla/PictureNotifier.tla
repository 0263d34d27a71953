---------------------------- MODULE PictureNotifier ----------------------------
(***************************************************************************)
(* What the state machine is promised about the end of a picture.  Every    *)
(* picture it starts is started with the postprocessor; later the notify    *)
(* thread of the postprocessor posts the end of that picture once, or gives *)
(* it up because it was stopped or because another one was started.  Ends   *)
(* come in the order of the pictures, but an end may be late: posted, or    *)
(* taken, when its picture is long over.                                    *)
(*                                                                          *)
(* QCameraStateMachine relies on no more than this, and QCameraPostProc     *)
(* delivers it.                                                             *)
(***************************************************************************)
EXTENDS Naturals, Sequences

VARIABLES
    pictures,  \* number of pictures started; the last one's id
    postproc,  \* the last command given to the postprocessor was start()
    shooting,  \* pictures the notify thread has yet to finish or give up
    done       \* the ends posted and not yet taken, by picture

vars == <<pictures, postproc, shooting, done>>

Init ==
    /\ pictures = 0
    /\ postproc = FALSE
    /\ shooting = <<>>
    /\ done = <<>>

\* A picture that cannot be taken may be stopped at once.
Start ==
    /\ pictures' = pictures + 1
    /\ postproc' \in BOOLEAN
    /\ shooting' = Append(shooting, pictures + 1)
    /\ UNCHANGED done

Stop ==
    /\ postproc' = FALSE
    /\ UNCHANGED <<pictures, shooting, done>>

Post ==
    /\ shooting # <<>>
    /\ done' = Append(done, Head(shooting))
    /\ shooting' = Tail(shooting)
    /\ UNCHANGED <<pictures, postproc>>

\* The picture in progress is not given up.
GiveUp ==
    /\ shooting # <<>>
    /\ ~postproc \/ Head(shooting) # pictures
    /\ shooting' = Tail(shooting)
    /\ UNCHANGED <<pictures, postproc, done>>

\* The state machine takes an end, and stops the postprocessor if a picture was on.
Take ==
    /\ done # <<>>
    /\ done' = Tail(done)
    /\ postproc' \in {postproc, FALSE}
    /\ UNCHANGED <<pictures, shooting>>

Next == Start \/ Stop \/ Post \/ GiveUp \/ Take

Spec == Init /\ [][Next]_vars
=============================================================================
