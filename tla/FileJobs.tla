------------------------------ MODULE FileJobs ------------------------------
(* The file operations of the file manager s3dfm: a window asks, a thread      *)
(* copies or unlinks the selected files one by one, and the main loop looks    *)
(* after it without a lock: it cleans up what is finished, frees the list when *)
(* all is, and shows the errors, for whose confirmation the thread waits.      *)
EXTENDS Integers, Sequences, FiniteSets, SequencesExt

CONSTANTS
    Files,      \* all in one directory
    MaxJobs,    \* how often a window may ask
    MaxErrs     \* how many file operations fail

VARIABLES
    fs_lock,    \* TYPE_NONE, TYPE_COPY (also a new directory), TYPE_UNLINK or TYPE_FINISHED
    fp,         \* the list, [name, state] each; none is NoList
    pos,        \* where window_fsani() is: 0 outside of it, or the entry it looks at next
    thread,     \* "none", "at" an entry, "in" its operation, "waits" in fs_error()
    at,         \* the entry the thread is at
    fs_err,     \* ESTATE_NONE, _RISE, _WAIT_FOR_CONFIRM
    windows,    \* those whose buttons do more than to close them
    typeinput,  \* keys go to an input field
    detached,   \* the selected files
    tree, disk, \* the files there are nodes for, and the files there are
    jobs, errs, \* how much was asked for and has failed
    missed      \* (history) the files the thread was done with when the main loop had passed them,
                \* and that it has not come to again

job  == <<fs_lock, fp, pos, fs_err, windows, typeinput>>
vars == <<fs_lock, fp, pos, fs_err, windows, typeinput, thread, at,
          detached, tree, disk, jobs, errs, missed>>
NoList == <<>>

\* The main loop runs window_fsani() and, between two rounds, what the user asks for.
Idle == pos = 0
Key  == Idle /\ ~typeinput

-----------------------------------------------------------------------------
(* What the user does                                                          *)

\* A node is selected by a click, or no more.
Select(f) == /\ Idle /\ f \in tree
             /\ detached' = IF f \in detached THEN detached \ {f} ELSE detached \cup {f}
             /\ UNCHANGED <<job, thread, at, tree, disk, jobs, errs, missed>>

get_selected == [i \in 1..Cardinality(detached) |->
                    [name |-> SetToSeq(detached)[i], state |-> "NONE"]]
\* Variant: a job under way does not keep the next one out.
AskAlways(type) ==
    /\ fs_lock' = type /\ fp' = get_selected
    /\ windows' = IF detached = {} THEN windows ELSE windows \cup {"job"}
\* window_copy() and window_unlink(): without a selection nothing is asked, but the lock is kept.
Ask(type) ==
    IF fs_lock # "NONE" THEN UNCHANGED <<fs_lock, fp, windows>>
    ELSE /\ fs_lock' = type /\ fp' = get_selected
         /\ windows' = IF detached = {} THEN windows ELSE windows \cup {"job"}
window_job(type) ==
    /\ Key /\ jobs < MaxJobs /\ jobs' = jobs + 1
    /\ Ask(type)
    /\ UNCHANGED <<pos, fs_err, typeinput, thread, at, detached, tree, disk, errs, missed>>

window_mkdir ==
    /\ Key /\ jobs < MaxJobs /\ jobs' = jobs + 1 /\ fs_lock = "NONE"
    /\ fs_lock' = "COPY" /\ typeinput' = TRUE /\ windows' = windows \cup {"mkdir"}
    /\ UNCHANGED <<fp, pos, fs_err, thread, at, detached, tree, disk, errs, missed>>

\* The OK of a job's window: the thread is started.
window_fs ==
    /\ Idle /\ "job" \in windows
    /\ windows' = windows \ {"job"}
    /\ thread' = "at" /\ at' = 1
    /\ UNCHANGED <<fs_lock, fp, pos, fs_err, typeinput, detached, tree, disk, jobs, errs, missed>>

\* The abort of a job's window, and either button of the one for a new directory.
window_fs_abort == \E w \in windows \cap {"job", "mkdir"} :
    /\ Idle
    /\ fp' = NoList /\ fs_lock' = "NONE" /\ typeinput' = FALSE /\ windows' = windows \ {w}
    /\ UNCHANGED <<pos, fs_err, thread, at, detached, tree, disk, jobs, errs, missed>>

\* Variant: the window is closed and the thread not told.
ConfirmQuiet == windows' = windows \ {"error"} /\ UNCHANGED fs_err
Confirmed == windows' = windows \ {"error"} /\ fs_err' = "NONE"
window_fs_confirm_error ==
    /\ Idle /\ "error" \in windows
    /\ Confirmed
    /\ UNCHANGED <<fs_lock, fp, pos, typeinput, thread, at, detached, tree, disk, jobs, errs, missed>>

-----------------------------------------------------------------------------
(* window_fsani(): one entry after the other, then the end of the thread and   *)
(* its errors                                                                  *)

Start == /\ Idle /\ fs_lock # "NONE" /\ pos' = 1
         /\ UNCHANGED <<fs_lock, fp, fs_err, windows, typeinput, thread, at, detached, tree,
                        disk, jobs, errs, missed>>

\* A finished entry is no more selected, and its directory is looked at again, unless there is
\* no node for it any more.
CleanUp ==
    /\ pos \in DOMAIN fp /\ pos' = pos + 1
    /\ IF fp[pos].state = "FINISHED"
       THEN /\ fp' = [fp EXCEPT ![pos].state = "CLEANED"]
            /\ missed' = missed \ {fp[pos].name}
            /\ IF fp[pos].name \in tree
               THEN tree' = tree \cap disk /\ detached' = detached \cap (disk \ {fp[pos].name})
               ELSE UNCHANGED <<tree, detached>>
       ELSE UNCHANGED <<fp, detached, tree, missed>>
    /\ UNCHANGED <<fs_lock, fs_err, windows, typeinput, thread, at, disk, jobs, errs>>

\* Variant: the list is freed as soon as its last entry is cleaned.
EndSeenEarly == fp # NoList /\ fp[Len(fp)].state \in {"FINISHED", "CLEANED"}
EndSeen == fs_lock = "FINISHED"
Rest ==
    /\ pos > Len(fp) /\ pos' = 0
    /\ IF EndSeen THEN fp' = NoList /\ typeinput' = FALSE /\ fs_lock' = "NONE"
       ELSE UNCHANGED <<fp, typeinput, fs_lock>>
    /\ IF fs_err = "RISE"
       THEN fs_err' = "WAIT_FOR_CONFIRM" /\ windows' = windows \cup {"error"}
       ELSE UNCHANGED <<fs_err, windows>>
    /\ UNCHANGED <<thread, at, detached, tree, disk, jobs, errs, missed>>
window_fsani == Start \/ CleanUp \/ Rest

-----------------------------------------------------------------------------
(* The thread: fs_fl_copy() or fs_fl_unlink()                                  *)

State(s) == fp' = [fp EXCEPT ![at].state = s]
Take == /\ thread = "at" /\ at <= Len(fp)
        /\ State("INUSE") /\ thread' = "in"
        /\ UNCHANGED <<fs_lock, pos, fs_err, windows, typeinput, at, detached, tree, disk, jobs, errs, missed>>

\* A file is copied or gone, or what failed was confirmed: on to the next one.
Finished == /\ State("FINISHED") /\ thread' = "at" /\ at' = at + 1
            /\ missed' = IF pos > at THEN missed \cup {fp[at].name} ELSE missed
Works == /\ thread = "in"
         /\ Finished
         /\ disk' = IF fs_lock = "UNLINK" THEN disk \ {fp[at].name} ELSE disk
         /\ UNCHANGED <<fs_lock, pos, fs_err, windows, typeinput, detached, tree, jobs, errs>>
fs_error == /\ thread = "in" /\ errs < MaxErrs
            /\ errs' = errs + 1 /\ fs_err' = "RISE" /\ thread' = "waits"
            /\ UNCHANGED <<fs_lock, fp, pos, windows, typeinput, at, detached, tree, disk, jobs, missed>>
\* The operation goes on behind its error: a file fails, a copy has more to read.
Clear == /\ thread = "waits" /\ fs_err = "NONE"
         /\ \/ Finished
            \/ thread' = "in" /\ UNCHANGED <<fp, at, missed>>
         /\ UNCHANGED <<fs_lock, pos, fs_err, windows, typeinput, detached, tree, disk, jobs, errs>>
End == /\ thread = "at" /\ at > Len(fp)
       /\ fs_lock' = "FINISHED" /\ thread' = "none"
       /\ UNCHANGED <<fp, pos, fs_err, windows, typeinput, at, detached, tree, disk, jobs, errs, missed>>
thread_start == Take \/ Works \/ fs_error \/ Clear \/ End

-----------------------------------------------------------------------------
Init == /\ fs_lock = "NONE" /\ fp = NoList /\ pos = 0 /\ fs_err = "NONE"
        /\ thread = "none" /\ at = 0
        /\ windows = {} /\ typeinput = FALSE
        /\ detached = {} /\ tree = Files /\ disk = Files
        /\ jobs = 0 /\ errs = 0 /\ missed = {}

Next == \/ \E f \in Files : Select(f)
        \/ \E type \in {"COPY", "UNLINK"} : window_job(type)
        \/ window_mkdir \/ window_fs \/ window_fs_abort \/ window_fs_confirm_error
        \/ window_fsani \/ thread_start
\* The main loop and the thread run on; the user confirms what is shown.
Fairness == /\ WF_vars(window_fsani) /\ WF_vars(thread_start) /\ SF_vars(window_fs_confirm_error)
Spec == Init /\ [][Next]_vars /\ Fairness

-----------------------------------------------------------------------------
\* A list always has one owner: the window that asks, the thread, or when the thread has ended
\* the main loop, which frees it. So the lock of a job that has a list is given up in the end;
\* that of one with nothing selected is not.
ListHasOwner == fp # NoList =>
    \/ "job" \in windows /\ thread = "none" /\ fs_lock # "FINISHED"
    \/ "job" \notin windows /\ thread # "none" /\ fs_lock # "FINISHED"
    \/ "job" \notin windows /\ thread = "none" /\ fs_lock = "FINISHED"

\* Nobody frees or replaces the list under the thread; and when no job is under way the tree
\* shows no file that is gone from the disk, but for those the thread was done with when the
\* main loop had just passed them in the round that frees the list.
JobsAreApart ==
    /\ thread \in {"in", "waits"} => at \in DOMAIN fp /\ fp[at].state = "INUSE"
    /\ fs_lock = "NONE" => thread = "none" /\ tree \subseteq disk \cup missed

\* Whatever fails on the way, a job that was started comes to its end and gives up the lock.
JobEnds == thread # "none" ~> fs_lock = "NONE"
=============================================================================
