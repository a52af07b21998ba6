------------------------------ MODULE ProcessExec ------------------------------
(***************************************************************************)
(* execute_and_capture of src/src/runner/process.cpp, called by several    *)
(* threads at once: each call makes a pipe, forks a tool onto it, reads    *)
(* until end of file, a deadline or a cancellation, kills the tool's       *)
(* process group if it must, and reaps.                                    *)
(*                                                                         *)
(* The kernel is modelled for what these calls ask of it: a fork copies    *)
(* every descriptor of PEREDUR's, an exec closes the close-on-exec ones, a *)
(* reader sees end of file once nobody holds the write end, and a signal   *)
(* sent at a parent's death reaches the processes that asked for it. Tools *)
(* may hang at any point, close their output early, or start helper        *)
(* processes of their own.                                                 *)
(***************************************************************************)
EXTENDS Integers, FiniteSets

CONSTANTS
    Call,       \* the calls under way, each on a thread of its own
    Bounded,    \* those with a non-zero timeout
    Watched,    \* those under an ExecCancelScope
    WithInput,  \* those of execute_and_capture_with_input
    MayDie,     \* whether PEREDUR may be killed (on Linux, which has pipe2 and
                \* where the kernel contains)
    NoCall, NoMutex

CallAssumption ==
    /\ Bounded \subseteq Call
    /\ Watched \subseteq Call
    /\ WithInput \subseteq Call
    /\ MayDie \in BOOLEAN
    /\ NoCall \notin Call /\ NoMutex \notin Call \cup {NoCall}

VARIABLES
    exec_pc,           \* where each call is
    spawn_mutex,  \* the call holding it, or NoMutex where there is pipe2
    ends,         \* the open write ends of the calls' pipes
    child,        \* each call's child process
    helper,       \* and one process its tool may start
    cancel,       \* calls whose cancellation signal asks for a kill
    expired,      \* calls whose deadline has passed
    timed_out,
    cancelled,
    killed,       \* history: calls whose tool was alive when it was killed
    alive         \* whether PEREDUR is

callVars == <<exec_pc, spawn_mutex, timed_out, cancelled>>
procVars == <<ends, child, helper>>
execVars == <<callVars, procVars, cancel, expired, killed, alive>>

-----------------------------------------------------------------------------
CallPC == {"entry", "spawn", "pipe", "mark", "fork", "adopt", "read", "reap",
           "nap", "returned", "threw"}

\* "forked" to "checked" are the steps between the fork and the exec; "tool"
\* runs the program asked for; "dead" waits to be reaped.
ChildState == {"none", "forked", "grouped", "armed", "checked", "tool", "dead",
               "reaped"}

Peredur == <<"peredur">>
Tool(c) == <<"tool", c>>
Helper(c) == <<"helper", c>>
Process == {Peredur} \cup {Tool(c) : c \in Call} \cup {Helper(c) : c \in Call}

\* A descriptor of a pipe's write end in one process.
End(p, c, cloexec) == [holder |-> p, pipe |-> c, cloexec |-> cloexec]

ExecInit ==
    /\ exec_pc = [c \in Call |-> "entry"]
    /\ spawn_mutex \in {NoCall, NoMutex}
    /\ ends = {}
    /\ child = [c \in Call |-> "none"]
    /\ helper = [c \in Call |-> "none"]
    /\ cancel = {}
    /\ expired = {}
    /\ timed_out = {}
    /\ cancelled = {}
    /\ killed = {}
    /\ alive = TRUE

\* Elsewhere a pipe is marked close-on-exec after it is made.
HasPipe2 == spawn_mutex = NoMutex

Goto(c, place) == exec_pc' = [exec_pc EXCEPT ![c] = place]

ToolLives(c) == child[c] \notin {"none", "dead", "reaped"}

Without(P) == {e \in ends : e.holder \notin P}

exec_cancelled(c) == c \in cancel

\* run_and_capture's first lines: no child is started for a cancelled call.
Enter(c) ==
    /\ exec_pc[c] = "entry"
    /\ Goto(c, IF exec_cancelled(c) THEN "threw" ELSE "spawn")
    /\ UNCHANGED <<spawn_mutex, timed_out, cancelled, procVars, cancel, expired, killed, alive>>

\* Mutant of MustLock: the guard is left out.
MustLockNever == FALSE

MustLock == ~HasPipe2

\* SpawnGuard's constructor: a lock only where a pipe is marked in two steps.
TakeGuard(c) ==
    /\ exec_pc[c] = "spawn"
    /\ MustLock => spawn_mutex = NoCall
    /\ spawn_mutex' = IF MustLock THEN c ELSE spawn_mutex
    /\ Goto(c, "pipe")
    /\ UNCHANGED <<timed_out, cancelled, procVars, cancel, expired, killed, alive>>

ReleaseGuard(c) ==
    spawn_mutex' = IF spawn_mutex = c THEN NoCall ELSE spawn_mutex

\* Mutant of FlagAtOnce: the pipe is never marked.
FlagNot == FALSE

\* Whether a pipe is close-on-exec from the moment it exists.
FlagAtOnce == HasPipe2

\* input_file_holding, which may throw, and make_cloexec_pipe's pipe.
MakePipe(c) ==
    /\ exec_pc[c] = "pipe"
    /\ \/ /\ ends' = ends \cup {End(Peredur, c, FlagAtOnce)}
          /\ Goto(c, IF HasPipe2 THEN "fork" ELSE "mark")
          /\ UNCHANGED spawn_mutex
       \/ /\ c \in WithInput
          /\ Goto(c, "threw")
          /\ ReleaseGuard(c)
          /\ UNCHANGED ends
    /\ UNCHANGED <<timed_out, cancelled, child, helper, cancel, expired, killed, alive>>

\* make_cloexec_pipe's fcntl.
MarkCloexec(c) ==
    /\ exec_pc[c] = "mark"
    /\ ends' = (ends \ {End(Peredur, c, FALSE)}) \cup {End(Peredur, c, TRUE)}
    /\ Goto(c, "fork")
    /\ UNCHANGED <<spawn_mutex, timed_out, cancelled, child, helper, cancel, expired, killed, alive>>

\* fork copies every descriptor with its flag; dup2 clears the flag on the
\* two the child is to keep.
Fork(c) ==
    /\ exec_pc[c] = "fork"
    /\ child' = [child EXCEPT ![c] = "forked"]
    /\ ends' = ends
         \cup {End(Tool(c), e.pipe, e.pipe # c /\ e.cloexec) :
                 e \in {e \in ends : e.holder = Peredur}}
    /\ Goto(c, "adopt")
    /\ UNCHANGED <<spawn_mutex, timed_out, cancelled, helper, cancel, expired, killed, alive>>

\* adopt_child_process_group, PEREDUR's copy of the write end closed, and the
\* guard released; the deadline runs from here.
Adopt(c) ==
    /\ exec_pc[c] = "adopt"
    /\ child' = [child EXCEPT ![c] = IF @ = "forked" THEN "grouped" ELSE @]
    /\ ends' = {e \in ends : ~(e.holder = Peredur /\ e.pipe = c)}
    /\ ReleaseGuard(c)
    /\ Goto(c, "read")
    /\ UNCHANGED <<timed_out, cancelled, helper, cancel, expired, killed, alive>>

\* read_until at end of file.
ReadEof(c) ==
    /\ exec_pc[c] = "read"
    /\ \A e \in ends : e.pipe # c
    /\ Goto(c, "reap")
    /\ UNCHANGED <<spawn_mutex, timed_out, cancelled, procVars, cancel, expired, killed, alive>>

\* Mutant of KilledBy: the signal goes to the child alone.
KilledByKill(c) == {Tool(c)}

\* kill_process_tree: the child, and the group it leads.
KilledBy(c) == {Tool(c), Helper(c)}

kill_process_tree(c) ==
    /\ child' = [child EXCEPT ![c] = "dead"]
    /\ helper' = [helper EXCEPT ![c] =
                    IF @ = "runs" /\ Helper(c) \in KilledBy(c) THEN "dead" ELSE @]
    /\ ends' = Without(KilledBy(c))
    /\ killed' = IF ToolLives(c) THEN killed \cup {c} ELSE killed

\* Mutant of MarksTimeOut: the result of a killed tool is not marked.
MarksTimeOutNot(c) == timed_out

MarksTimeOut(c) == timed_out \cup {c}

\* read_until stopped short of end of file: kill, and note a cancellation.
ReadStops(c) ==
    /\ exec_pc[c] = "read"
    /\ c \in expired \/ exec_cancelled(c)
    /\ timed_out' = MarksTimeOut(c)
    /\ cancelled' = IF exec_cancelled(c) THEN cancelled \cup {c} ELSE cancelled
    /\ kill_process_tree(c)
    /\ Goto(c, "reap")
    /\ UNCHANGED <<spawn_mutex, cancel, expired, alive>>

Outcome(c) == IF c \in cancelled THEN "threw" ELSE "returned"

\* wait4 collects the child.
Reap(c) ==
    /\ exec_pc[c] = "reap"
    /\ child[c] = "dead"
    /\ child' = [child EXCEPT ![c] = "reaped"]
    /\ Goto(c, Outcome(c))
    /\ UNCHANGED <<spawn_mutex, timed_out, cancelled, ends, helper, cancel, expired, killed, alive>>

\* Mutant of Polls: the reap blocks in wait4.
PollsNever(c) == FALSE

\* Whether wait4 is called with WNOHANG: a deadline, and no kill so far.
Polls(c) == c \in Bounded /\ c \notin timed_out

\* wait4 with WNOHANG finds the child running.
PollChild(c) ==
    /\ exec_pc[c] = "reap"
    /\ Polls(c)
    /\ ToolLives(c)
    /\ Goto(c, "nap")
    /\ UNCHANGED <<spawn_mutex, timed_out, cancelled, procVars, cancel, expired, killed, alive>>

\* The deadline looked at after an empty poll.
Nap(c) ==
    /\ exec_pc[c] = "nap"
    /\ Goto(c, "reap")
    /\ IF c \in expired
         THEN kill_process_tree(c) /\ timed_out' = MarksTimeOut(c)
         ELSE UNCHANGED <<procVars, killed, timed_out>>
    /\ UNCHANGED <<spawn_mutex, cancelled, cancel, expired, alive>>

CallStep(c) ==
    /\ alive
    /\ \/ Enter(c) \/ TakeGuard(c) \/ MakePipe(c) \/ MarkCloexec(c) \/ Fork(c)
       \/ Adopt(c) \/ ReadEof(c) \/ ReadStops(c) \/ Reap(c) \/ PollChild(c) \/ Nap(c)

-----------------------------------------------------------------------------
(* The child *)

ChildBecomes(c, from, to) ==
    /\ child[c] = from
    /\ child' = [child EXCEPT ![c] = to]

processOnly == <<callVars, cancel, expired, killed, alive>>

\* harden_child_after_fork's setpgid and prctl.
SetPgid(c) == ChildBecomes(c, "forked", "grouped") /\ UNCHANGED <<ends, helper, processOnly>>
Arm(c) == ChildBecomes(c, "grouped", "armed") /\ UNCHANGED <<ends, helper, processOnly>>

Exits(c) ==
    /\ child' = [child EXCEPT ![c] = "dead"]
    /\ ends' = Without({Tool(c)})
    /\ UNCHANGED <<helper, processOnly>>

\* Mutant of ParentGone: getppid is not looked at.
ParentGoneNot == FALSE

\* getppid() # parent_pid.
ParentGone == ~alive

\* harden_child_after_fork's last lines.
CheckParent(c) ==
    \/ /\ ~ParentGone
       /\ ChildBecomes(c, "armed", "checked")
       /\ UNCHANGED <<ends, helper, processOnly>>
    \/ /\ child[c] = "armed"
       /\ ParentGone
       /\ Exits(c)

\* exec_child's exec, and its _exit(127) when that fails.
Exec(c) ==
    \/ /\ ChildBecomes(c, "checked", "tool")
       /\ ends' = {e \in ends : ~(e.holder = Tool(c) /\ e.cloexec)}
       /\ UNCHANGED <<helper, processOnly>>
    \/ child[c] = "checked" /\ Exits(c)

ChildStep(c) == SetPgid(c) \/ Arm(c) \/ CheckParent(c) \/ Exec(c)

(* The tool, which owes PEREDUR nothing *)

\* It closes its output and lives on, ends, or starts a helper.
ToolCloses(c) ==
    /\ child[c] = "tool"
    /\ \E e \in ends : e.holder = Tool(c) /\ e.pipe = c
    /\ ends' = {e \in ends : ~(e.holder = Tool(c) /\ e.pipe = c)}
    /\ UNCHANGED <<child, helper, processOnly>>

ToolExits(c) == child[c] = "tool" /\ Exits(c)

ToolForks(c) ==
    /\ child[c] = "tool"
    /\ helper[c] = "none"
    /\ helper' = [helper EXCEPT ![c] = "runs"]
    /\ ends' = ends \cup {End(Helper(c), e.pipe, e.cloexec) :
                            e \in {e \in ends : e.holder = Tool(c)}}
    /\ UNCHANGED <<child, processOnly>>

HelperExits(c) ==
    /\ helper[c] = "runs"
    /\ helper' = [helper EXCEPT ![c] = "dead"]
    /\ ends' = Without({Helper(c)})
    /\ UNCHANGED <<child, processOnly>>

ToolStep(c) == ToolCloses(c) \/ ToolExits(c) \/ ToolForks(c) \/ HelperExits(c)

(* The environment *)

Expire(c) ==
    /\ c \in Bounded \ expired
    /\ exec_pc[c] \in {"read", "reap", "nap"}
    /\ expired' = expired \cup {c}
    /\ UNCHANGED <<callVars, procVars, cancel, killed, alive>>

\* The scope's flag is set, or its softer one with the grace gone by.
Cancel(c) ==
    /\ c \in Watched \ cancel
    /\ cancel' = cancel \cup {c}
    /\ UNCHANGED <<callVars, procVars, expired, killed, alive>>

\* PEREDUR is killed, on Linux: its descriptors go, and with them every child that has
\* asked for PR_SET_PDEATHSIG.
PeredurDies ==
    LET armed == {c \in Call : child[c] \in {"armed", "checked", "tool"}}
    IN  /\ MayDie /\ HasPipe2
        /\ alive
        /\ alive' = FALSE
        /\ child' = [c \in Call |-> IF c \in armed THEN "dead" ELSE child[c]]
        /\ ends' = Without({Peredur} \cup {Tool(c) : c \in armed})
        /\ UNCHANGED <<callVars, helper, cancel, expired, killed>>

ExecNext ==
    \/ \E c \in Call : CallStep(c)
    \/ \E c \in Call : ChildStep(c)
    \/ \E c \in Call : ToolStep(c)
    \/ \E c \in Call : Expire(c)
    \/ \E c \in Call : Cancel(c)
    \/ PeredurDies

ExecSpec == ExecInit /\ [][ExecNext]_execVars

\* PEREDUR's threads run, a child reaches its exec, and time passes. Nothing
\* is assumed of a tool, nor that anything is ever cancelled.
FairExecSpec ==
    /\ ExecSpec
    /\ \A c \in Call : WF_execVars(CallStep(c)) /\ WF_execVars(ChildStep(c)) /\ WF_execVars(Expire(c))

-----------------------------------------------------------------------------
(* Properties *)

Over(c) == exec_pc[c] \in {"returned", "threw"}

ExecTypeOK ==
    /\ exec_pc \in [Call -> CallPC]
    /\ spawn_mutex \in Call \cup {NoCall, NoMutex}
    /\ ends \subseteq [holder : Process, pipe : Call, cloexec : BOOLEAN]
    /\ child \in [Call -> ChildState]
    /\ helper \in [Call -> {"none", "runs", "dead"}]
    /\ cancel \subseteq Watched /\ cancelled \subseteq cancel
    /\ expired \subseteq Bounded /\ timed_out \subseteq Call
    /\ killed \subseteq Call /\ alive \in BOOLEAN

\* "A bare kill(pid) hits only the direct child and strands every grandchild
\* as an orphan": once a call that was timed out or cancelled is over, its
\* child is reaped and nothing its tool started still runs.
NoGroupOutlivesAKill ==
    \A c \in Call :
        Over(c) /\ c \in timed_out => child[c] = "reaped" /\ helper[c] # "runs"

\* The result of a killed tool is never mistaken for an answer: a call whose
\* tool was killed returns with m_timed_out set or raises ExecCancelled, and
\* raises it only if its own signal was set. ExecCancelled leaves no child.
KilledToolsGiveNoAnswer ==
    \A c \in Call :
        /\ exec_pc[c] = "returned" /\ c \in killed => c \in timed_out \ cancelled
        /\ exec_pc[c] = "returned" => c \notin cancelled
        /\ exec_pc[c] = "threw" => child[c] \in {"none", "reaped"}

\* "Never outlive the parent": once PEREDUR is dead no process of a call goes
\* on to run its tool, wherever between the fork and the exec it was.
ToolDiesWithPeredur == ~alive => \A c \in Call : child[c] # "tool"

\* "Zero means no deadline, which is the only way this function can block
\* indefinitely": a call with a timeout comes back although its tool hangs,
\* before closing its output or after.
EveryBoundedCallReturns == \A c \in Bounded : <>(Over(c) \/ ~alive)

\* A call comes back once its own tool and helper are gone, with or without a
\* timeout: no other call's tool keeps its pipe open (PR #53).
ReturnsOnceItsToolIsGone ==
    \A c \in Call :
        (child[c] = "dead" /\ helper[c] # "runs") ~> (Over(c) \/ ~alive)

\* How far a call has come agrees with what became of its child, and a call
\* marked as timed out has killed its tool and all it started.
CallsArePlaced ==
    \A c \in Call :
        /\ exec_pc[c] \in {"entry", "spawn", "pipe", "mark", "fork"} => child[c] = "none"
        /\ exec_pc[c] \in {"adopt", "read", "reap", "nap"} => child[c] \notin {"none", "reaped"}
        /\ exec_pc[c] = "returned" => child[c] = "reaped"
        /\ c \in timed_out => child[c] \in {"dead", "reaped"} /\ helper[c] # "runs"
        /\ c \in killed \cup cancelled => c \in timed_out

\* Between its prctl and its exec a child looks whether PEREDUR still lives.
NoOrphanIsArmed == ~alive => \A c \in Call : child[c] # "checked"

\* A killed tool is gone with all it started, its output is no answer, and
\* once PEREDUR is dead no call goes on to run its tool.
KillsAreFinal ==
    /\ ExecTypeOK /\ CallsArePlaced /\ NoOrphanIsArmed
    /\ NoGroupOutlivesAKill /\ KilledToolsGiveNoAnswer /\ ToolDiesWithPeredur

\* No call waits on a tool past its deadline, nor on another call's tool.
CallsReturn == EveryBoundedCallReturns /\ ReturnsOnceItsToolIsGone
=============================================================================
