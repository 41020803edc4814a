----------------------------- MODULE MethodStack -----------------------------
(***************************************************************************)
(* The stack of methods that other tasks have the main task perform        *)
(* (Source/WebKit/mui/Api/MorphOS/methodstack.c), as steps for MainLoop to *)
(* compose.  What is done with the semaphore held is one step.             *)
(***************************************************************************)
EXTENDS MainTask, Naturals, Sequences, Functions

CONSTANT Workers   \* the tasks other than the main task

VARIABLES methodlist,  \* the pushed methods: who pushed, is it sync, which push
          pushes,      \* history: the number of methods pushed
          current,     \* the methods that the main task is performing, innermost
                       \* first, each with the not_empty of its methodstack_check()
          replied      \* the workers whose push_sync has been replied to

stackVars == <<methodlist, pushes, current, replied>>

StackInit ==
    /\ methodlist = <<>>
    /\ pushes = 0
    /\ current = <<>>
    /\ replied = {}

(* methodstack_push() and methodstack_push_sync() of another task. *)
AddTail(task, sync) ==
    /\ methodlist' = Append(methodlist, [task |-> task, sync |-> sync, id |-> pushes + 1])
    /\ pushes' = pushes + 1
    /\ UNCHANGED <<current, replied>>

(* WaitPort() and GetMsg() of methodstack_push_sync(). *)
GetReply(w) ==
    /\ w \in replied
    /\ replied' = replied \ {w}
    /\ UNCHANGED <<methodlist, pushes, current>>

(* methodstack_check() takes a method off the list and performs it. *)
RemHead ==
    /\ methodlist # <<>>
    /\ current' = <<[method |-> Head(methodlist), not_empty |-> Tail(methodlist) # <<>>]>>
                      \o current
    /\ methodlist' = Tail(methodlist)
    /\ UNCHANGED <<pushes, replied>>

(* The method returns; one that was pushed in sync is replied to. *)
ReplyMsg ==
    LET method == Head(current).method
    IN  /\ replied' = IF method.sync THEN replied \cup {method.task} ELSE replied
        /\ current' = Tail(current)
        /\ UNCHANGED <<methodlist, pushes>>

(* Mutant: methods that were pushed in sync are dropped as the others. *)
FlushWithoutReply ==
    /\ methodlist' = <<>>
    /\ UNCHANGED <<pushes, current, replied>>

(* methodstack_cleanup_flush() *)
Flush ==
    /\ replied' = replied \cup {m.task : m \in {n \in Range(methodlist) : n.sync}}
    /\ methodlist' = <<>>
    /\ UNCHANGED <<pushes, current>>

(* methodstack_cleanup().  A method that is pushed after its flush fares   *)
(* as one that is pushed after its end.                                    *)
Cleanup == Flush /\ mstask' = None
==============================================================================
