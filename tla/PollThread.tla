------------------------------ MODULE PollThread ------------------------------
(***************************************************************************)
(* The data poll thread of a channel, mm_camera_thread.c: the entries its    *)
(* users set, the commands they write into its pipe, each waited for until   *)
(* the thread has served it, and the loop that polls the pipe and the        *)
(* streams' descriptors and calls the streams that have data.                *)
(*                                                                           *)
(* The user's part is given as operators on the variables of this module;    *)
(* one caller is in the thread at a time, as ch_lock is held.  What a stream *)
(* does when it is called is the user's too: "scan" is left and entered      *)
(* again by whoever extends this module.  pthread_cond_wait() is taken to    *)
(* return when it is signalled, and not before: it is not in a loop.         *)
(***************************************************************************)
EXTENDS Naturals, Sequences, FiniteSets

CONSTANT MaxStreams      \* MAX_STREAM_NUM_IN_BUNDLE: entries of the thread

ASSUME PollThreadAssumption == MaxStreams \in Nat \ {0}

Index == 1 .. MaxStreams

VARIABLES
    poll_entries,  \* the entries that have a descriptor and a callback
    poll_fds,      \* the descriptors poll() is called with
    pipe,          \* commands written and not read
    poll_state,    \* MM_CAMERA_POLL_TASK_STATE_*
    poll_pc,       \* what the thread is at
    ready,         \* descriptors with data that the loop has still to look at
    sig_wait       \* is the caller waiting for the thread's sig_done

pollVars == <<poll_entries, poll_fds, pipe, poll_state, poll_pc, ready, sig_wait>>

PollInit ==
    /\ poll_entries = {} /\ poll_fds = {} /\ pipe = <<>>
    /\ poll_state = "STOPPED" /\ poll_pc = "none" /\ ready = {}
    /\ sig_wait = FALSE

-----------------------------------------------------------------------------
(* The caller                                                                *)

\* mm_camera_poll_thread_launch() waits for the thread it creates.
LaunchPoll ==
    /\ poll_pc' = "launched"
    /\ sig_wait' = TRUE
    /\ UNCHANGED <<poll_entries, poll_fds, pipe, poll_state, ready>>

\* mm_camera_poll_sig(): a command, and the wait for the thread to serve it.
Sig(cmd) ==
    /\ pipe' = Append(pipe, cmd)
    /\ sig_wait' = TRUE
    /\ UNCHANGED <<poll_fds, poll_state, poll_pc, ready>>

\* mm_camera_poll_thread_add_poll_fd() and _del_poll_fd().
AddPollFd(i) == poll_entries' = poll_entries \cup {i} /\ Sig("UPDATED")
DelPollFd(i) == poll_entries' = poll_entries \ {i} /\ Sig("UPDATED")

\* mm_camera_poll_thread_release(): a thread that says it is stopped is left
\* alone, any other is told to exit.
ReleasePoll ==
    IF poll_state = "STOPPED"
    THEN UNCHANGED pollVars
    ELSE Sig("EXIT") /\ UNCHANGED poll_entries

-----------------------------------------------------------------------------
(* The thread                                                                *)

\* mm_camera_poll_thread() answers its launch before it sets its state.
PollStarts ==
    /\ poll_pc = "launched"
    /\ poll_pc' = "starting"
    /\ sig_wait' = FALSE
    /\ UNCHANGED <<poll_entries, poll_fds, pipe, poll_state, ready>>

PollEnters ==
    /\ poll_pc = "starting"
    /\ poll_pc' = "poll"
    /\ poll_state' = "POLL"
    /\ UNCHANGED <<poll_entries, poll_fds, pipe, ready, sig_wait>>

\* Mutant: an update of the descriptors is not answered.
PollCommandUnanswered ==
    /\ poll_pc = "poll"
    /\ pipe # <<>>
    /\ pipe' = Tail(pipe)
    /\ \/ /\ Head(pipe) = "UPDATED"
          /\ poll_fds' = poll_entries
          /\ UNCHANGED <<poll_state, poll_pc, sig_wait>>
       \/ /\ Head(pipe) = "EXIT"
          /\ poll_state' = "STOPPED"
          /\ poll_pc' = "gone"
          /\ sig_wait' = FALSE
          /\ UNCHANGED poll_fds
    /\ UNCHANGED <<poll_entries, ready>>

\* poll() returns with data in the pipe: mm_camera_poll_proc_pipe().
PollCommand ==
    /\ poll_pc = "poll"
    /\ pipe # <<>>
    /\ pipe' = Tail(pipe)
    /\ sig_wait' = FALSE
    /\ \/ /\ Head(pipe) = "UPDATED"
          /\ poll_fds' = poll_entries
          /\ UNCHANGED <<poll_state, poll_pc>>
       \/ /\ Head(pipe) = "EXIT"
          /\ poll_state' = "STOPPED"
          /\ poll_pc' = "gone"
          /\ UNCHANGED poll_fds
    /\ UNCHANGED <<poll_entries, ready>>

\* poll() returns with none: some of the descriptors that have data are ready.
PollData(withData) ==
    /\ poll_pc = "poll"
    /\ pipe = <<>>
    /\ \E R \in SUBSET (poll_fds \cap withData) \ {{}} : ready' = R
    /\ poll_pc' = "scan"
    /\ UNCHANGED <<poll_entries, poll_fds, pipe, poll_state, sig_wait>>

\* The loop looks at the first ready descriptor, and calls if there is still
\* a callback.
NextReady == CHOOSE i \in ready : \A k \in ready : i <= k
Scan ==
    /\ poll_pc = "scan"
    /\ ready # {}
    /\ ready' = ready \ {NextReady}
    /\ poll_pc' = IF NextReady \in poll_entries THEN "notify" ELSE "scan"
    /\ UNCHANGED <<poll_entries, poll_fds, pipe, poll_state, sig_wait>>

ScanEnds ==
    /\ poll_pc = "scan"
    /\ ready = {}
    /\ poll_pc' = "poll"
    /\ UNCHANGED <<poll_entries, poll_fds, pipe, poll_state, ready, sig_wait>>

PollLoop == PollStarts \/ PollEnters \/ PollCommand \/ ScanEnds

PollTypeOK ==
    /\ poll_entries \subseteq Index /\ poll_fds \subseteq Index /\ ready \subseteq Index
    /\ pipe \in Seq({"UPDATED", "EXIT"})
    /\ poll_state \in {"STOPPED", "POLL"}
    /\ poll_pc \in {"none", "launched", "starting", "poll", "scan", "notify", "read",
                    "queue", "gone"}
    /\ sig_wait \in BOOLEAN
=============================================================================
