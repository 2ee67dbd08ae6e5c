------------------------------- MODULE Harness -------------------------------
(***************************************************************************)
(* Validation of one lesson (curriculum-tools/internal/harness).  The      *)
(* lesson's steps are written one after the other to REPL processes, one   *)
(* per session name, each followed by a command that prints a marker.  Two *)
(* goroutines per session pump stdout and stderr into one buffer and hand  *)
(* a step's exit status to whoever waits for its marker; the main          *)
(* goroutine waits with a time limit, except for steps that are meant to   *)
(* block, whose markers it collects when it closes the session.            *)
(*                                                                         *)
(* A pipe holds pieces: the marker of a step, the digits of its status,    *)
(* and noise.  A read may end between any two pieces.                      *)
(***************************************************************************)
EXTENDS Naturals, SequencesExt

CONSTANTS Sessions,
          Lessons,       \* sequences of [session, blocks]
          Statuses,      \* exit statuses, as sequences of digits
          MaxNoise       \* bound: lines on stderr, per session

ASSUME LessonsAssumption ==
    \A l \in Lessons : l \in Seq([session : Sessions, blocks : BOOLEAN])

(* printf %s "$?": a decimal number without leading zeros.                 *)
ASSUME StatusesAssumption ==
    \A st \in Statuses : st \in Seq(0 .. 9) /\ st # << >> /\ (st[1] = 0 => st = <<0>>)

VARIABLES lesson, mode,  \* the lesson, and how it is run: "shell", "tool" or "skip"
          main,          \* the goroutine of Validate, Send and Close
          session,       \* session name -> what the Session struct holds
          repl,          \* session name -> the process and its pipes
          ran,           \* history: step -> how its commands ended
          causes         \* history: why the lesson may fail

vars == <<lesson, mode, main, session, repl, ran, causes>>

Steps == DOMAIN lesson
Zero == <<0>>
NoStatus == << >>           \* a nil status

Token(n) == <<"step", n>>
Digits(st) == [k \in DOMAIN st |-> <<"digit", st[k]>>]
Noise == <<"noise", 0>>

-----------------------------------------------------------------------------
(* consume                                                                 *)

Printed(buffer, n) == Contains(buffer, Token(n))

(* The digits behind the marker; none if the read ended at the marker or   *)
(* something else got between.                                             *)
MarkerStatus(buffer, n) ==
    LET at == CHOOSE k \in DOMAIN buffer : buffer[k] = Token(n)
        run == {m \in at .. Len(buffer) :
                  \A k \in at + 1 .. m : buffer[k][1] = "digit"}
        end == CHOOSE m \in run : \A k \in run : k <= m
    IN  [k \in 1 .. end - at |-> buffer[at + k][2]]

(* Mutant: a marker without its status will do.                            *)
MarkerOnly(buffer, n) == Printed(buffer, n)
Arrived(buffer, n) ==
    /\ Printed(buffer, n)
    /\ mode = "shell" => MarkerStatus(buffer, n) # NoStatus

StatusOf(buffer, n) == IF mode = "shell" THEN MarkerStatus(buffer, n) ELSE NoStatus

(* Mutant: whatever is not a zero is a failure.                            *)
NotZero(status) == status # Zero
Fails(status) == status \notin {Zero, NoStatus}

WaitersAfter(s, served) == session[s].waiters \ served

Deliver(s, text) ==
    LET buffer == session[s].buffer \o text
        served == {n \in session[s].waiters : Arrived(buffer, n)}
    IN  session' = [session EXCEPT
          ![s].buffer  = buffer,
          ![s].waiters = WaitersAfter(s, served),
          ![s].done    = [n \in served \cup DOMAIN @ |->
                            IF n \in served THEN StatusOf(buffer, n) ELSE @[n]],
          ![s].failed  = @ \/ \E n \in served : Fails(StatusOf(buffer, n))]

(* One read of one pump, and consume under the session's mutex.            *)
Pump(s, pipe) ==
    \E m \in 1 .. Len(repl[s][pipe]) :
        /\ Deliver(s, SubSeq(repl[s][pipe], 1, m))
        /\ repl' = [repl EXCEPT ![s][pipe] = SubSeq(@, m + 1, Len(@))]
        /\ UNCHANGED <<lesson, mode, main, ran, causes>>

-----------------------------------------------------------------------------
(* The processes: they read a step, run it, and print its marker.          *)

ReadStep(s) ==
    /\ repl[s].alive /\ repl[s].running = 0 /\ repl[s].stdin # << >>
    /\ repl' = [repl EXCEPT ![s].running = Head(repl[s].stdin), ![s].stdin = Tail(@)]
    /\ UNCHANGED <<lesson, mode, main, session, ran, causes>>

Finish(s, status) ==
    LET n == repl[s].running IN
    /\ repl[s].alive /\ n # 0
    /\ repl' = [repl EXCEPT ![s].running = 0,
                            ![s].stdout = @ \o IF mode = "shell" THEN <<Token(n)>> \o Digits(status)
                                                                 ELSE <<Token(n)>>]
    /\ ran' = [k \in DOMAIN ran \cup {n} |-> IF k = n THEN status ELSE ran[k]]
    /\ UNCHANGED <<lesson, mode, main, session, causes>>

Complain(s) ==
    /\ repl[s].running # 0 \/ repl[s].child
    /\ repl[s].noise < MaxNoise
    /\ repl' = [repl EXCEPT ![s].stderr = Append(@, Noise), ![s].noise = @ + 1]
    /\ UNCHANGED <<lesson, mode, main, session, ran, causes>>

(* A step leaves a process behind that holds the pipes open.               *)
Fork(s) ==
    /\ repl[s].running # 0 /\ ~repl[s].child
    /\ repl' = [repl EXCEPT ![s].child = TRUE]
    /\ UNCHANGED <<lesson, mode, main, session, ran, causes>>

ChildEnds(s) ==
    /\ repl[s].child
    /\ repl' = [repl EXCEPT ![s].child = FALSE]
    /\ UNCHANGED <<lesson, mode, main, session, ran, causes>>

(* The REPL is gone.  What it was running may live on, with the pipes.     *)
Gone(s) ==
    \E left \in {FALSE, repl[s].running # 0} :
        repl' = [repl EXCEPT ![s].alive = FALSE, ![s].running = 0, ![s].child = @ \/ left]

(* `exit` in a step, or end of input.                                      *)
Exit(s) ==
    /\ repl[s].alive
    /\ repl[s].running # 0 \/ (repl[s].eof /\ repl[s].stdin = << >>)
    /\ Gone(s)
    /\ UNCHANGED <<lesson, mode, main, session, ran, causes>>

-----------------------------------------------------------------------------
(* Validate: a step starts the session it names if need be, registers a    *)
(* waiter, and only then writes the text and the marker command.           *)

NewSession == [started |-> TRUE, buffer |-> << >>, waiters |-> {}, done |-> << >>,
               pending |-> << >>, failed |-> FALSE]
NotStarted == [NewSession EXCEPT !.started = FALSE]
NewProcess == [alive |-> TRUE, running |-> 0, stdin |-> << >>, eof |-> FALSE,
               stdout |-> << >>, stderr |-> << >>, child |-> FALSE, noise |-> 0]
NoProcess == [NewProcess EXCEPT !.alive = FALSE]

Current == lesson[main.step].session
Go(at) == main' = [main EXCEPT !.at = at]
Blame(cause) == causes' = causes \cup {cause}

Register ==
    /\ main.at = "next" /\ main.ok /\ main.step < Len(lesson)
    /\ LET n == main.step + 1
           s == lesson[n].session
           new == ~session[s].started
           used == IF new THEN NewSession ELSE session[s]
       IN  /\ main' = [main EXCEPT !.at = "write", !.step = n,
                                   !.open = IF new THEN Append(@, s) ELSE @]
           /\ session' = [session EXCEPT ![s] = [used EXCEPT !.waiters = @ \cup {n}]]
           /\ repl' = IF new THEN [repl EXCEPT ![s] = NewProcess] ELSE repl
    /\ UNCHANGED <<lesson, mode, ran, causes>>

CannotStart ==
    /\ main.at = "next" /\ main.ok /\ main.step < Len(lesson)
    /\ ~session[lesson[main.step + 1].session].started
    /\ main' = [main EXCEPT !.at = "close", !.step = @ + 1, !.ok = FALSE]
    /\ Blame("start")
    /\ UNCHANGED <<lesson, mode, session, repl, ran>>

(* A write to a process that is gone is lost; its error is ignored.        *)
WriteStep ==
    LET s == Current IN
    /\ main.at = "write"
    /\ repl' = IF repl[s].alive THEN [repl EXCEPT ![s].stdin = Append(@, main.step)] ELSE repl
    /\ IF lesson[main.step].blocks
       THEN session' = [session EXCEPT ![s].pending = Append(@, main.step)] /\ Go("next")
       ELSE UNCHANGED session /\ Go("await")
    /\ UNCHANGED <<lesson, mode, ran, causes>>

Receive ==
    LET status == session[Current].done[main.step] IN
    /\ main.at = "await" /\ main.step \in DOMAIN session[Current].done
    /\ main' = [main EXCEPT !.at = "next", !.ok = status \in {Zero, NoStatus}]
    /\ UNCHANGED <<lesson, mode, session, repl, ran, causes>>

(* The time limit passes, whether or not the status has just come.         *)
TimeOut ==
    /\ main.at = "await"
    /\ session' = [session EXCEPT ![Current].waiters = @ \ {main.step}]
    /\ main' = [main EXCEPT !.at = "next", !.ok = FALSE]
    /\ Blame("timeout")
    /\ UNCHANGED <<lesson, mode, repl, ran>>

LastStep ==
    /\ main.at = "next" /\ (~main.ok \/ main.step = Len(lesson))
    /\ Go("close")
    /\ UNCHANGED <<lesson, mode, session, repl, ran, causes>>

(* Close, session by session: the blocking steps' markers under one        *)
(* deadline, the quit command, and two seconds for the process to leave.   *)
Closing == main.open[1]

Collect ==
    /\ main.at = "close" /\ main.open # << >>
    /\ \/ /\ session[Closing].pending # << >>
          /\ Head(session[Closing].pending) \in DOMAIN session[Closing].done
          /\ session' = [session EXCEPT ![Closing].pending = Tail(@)]
          /\ UNCHANGED main
       \/ session[Closing].pending = << >> /\ Go("quit") /\ UNCHANGED session
    /\ UNCHANGED <<lesson, mode, repl, ran, causes>>

Deadline ==
    /\ main.at = "close" /\ main.open # << >> /\ session[Closing].pending # << >>
    /\ session' = [session EXCEPT ![Closing].failed = TRUE]
    /\ Go("quit") /\ Blame("timeout")
    /\ UNCHANGED <<lesson, mode, repl, ran>>

Quit ==
    /\ main.at = "quit"
    /\ repl' = [repl EXCEPT ![Closing].eof = TRUE]
    /\ Go("reap")
    /\ UNCHANGED <<lesson, mode, session, ran, causes>>

(* Mutant: the two seconds are not limited.                                *)
NoPatience(s) == FALSE
Patience(s) == repl[s].alive

(* It ends the REPL, not what the REPL has started.                        *)
Kill ==
    /\ main.at = "reap" /\ Patience(Closing)
    /\ Gone(Closing)
    /\ UNCHANGED <<lesson, mode, main, session, ran, causes>>

(* exited is closed once both pumps have read their pipes to the end.      *)
Exited(s) ==
    /\ ~repl[s].alive /\ ~repl[s].child
    /\ repl[s].stdout = << >> /\ repl[s].stderr = << >>

Reap ==
    /\ main.at = "reap" /\ Exited(Closing)
    /\ main' = [main EXCEPT !.at = "close", !.open = Tail(@),
                            !.ok = @ /\ ~session[Closing].failed]
    /\ UNCHANGED <<lesson, mode, session, repl, ran, causes>>

Verdict ==
    /\ main.at = "close" /\ main.open = << >>
    /\ Go("end")
    /\ UNCHANGED <<lesson, mode, session, repl, ran, causes>>

Ended == main.at = "end" /\ UNCHANGED vars

-----------------------------------------------------------------------------
(* The REPL for a lesson: that of the course, whose mode is courseMode; for *)
(* a shell lesson the fallback, if there is one.                           *)
ReplFor(runIn, courseMode, fallback) ==
    IF runIn # "shell" \/ courseMode = "shell" THEN courseMode
    ELSE IF fallback THEN "shell" ELSE "skip"

(* A skipped lesson is over before it begins.                              *)
Init ==
    /\ lesson \in Lessons
    /\ \E runIn \in {"tool", "shell", "mixed"}, courseMode \in {"shell", "tool"}, fallback \in BOOLEAN :
          mode = ReplFor(runIn, courseMode, fallback)
    /\ main = [at |-> IF mode = "skip" THEN "end" ELSE "next",
               step |-> 0, ok |-> TRUE, open |-> << >>]
    /\ session = [s \in Sessions |-> NotStarted]
    /\ repl = [s \in Sessions |-> NoProcess]
    /\ ran = << >> /\ causes = {}

Main == \/ Register \/ CannotStart \/ WriteStep \/ Receive \/ TimeOut \/ LastStep
        \/ Collect \/ Deadline \/ Quit \/ Kill \/ Reap \/ Verdict

Process(s) ==
    \/ ReadStep(s) \/ Complain(s) \/ Fork(s) \/ Exit(s)
    \/ \E status \in Statuses : Finish(s, status)

Next ==
    \/ Main \/ Ended
    \/ \E s \in Sessions : Process(s) \/ ChildEnds(s) \/ Pump(s, "stdout") \/ Pump(s, "stderr")

(* The goroutines are scheduled and the timers fire.  Nothing is assumed   *)
(* of the REPL, of the steps it runs and of what they leave behind.        *)
Spec ==
    /\ Init /\ [][Next]_vars
    /\ WF_vars(Main)
    /\ \A s \in Sessions : WF_vars(Pump(s, "stdout")) /\ WF_vars(Pump(s, "stderr"))

-----------------------------------------------------------------------------
(* Properties.                                                             *)

(* What the goroutines share is consistent: a waiter's channel is empty,   *)
(* a pending step was sent to that session and blocks.                     *)
TypeOK ==
    /\ main.at \in {"next", "write", "await", "close", "quit", "reap", "end"}
    /\ main.step \in 0 .. Len(lesson) /\ main.ok \in BOOLEAN
    /\ \A s \in Sessions :
          /\ session[s].waiters \cap DOMAIN session[s].done = {}
          /\ \A n \in session[s].waiters \cup ToSet(session[s].pending) : lesson[n].session = s
          /\ \A n \in ToSet(session[s].pending) : lesson[n].blocks
          /\ repl[s].running \in {0} \cup Steps

(* A lesson that is run passes only if every one of its steps ran to its   *)
(* end, in shell mode with status zero, however reads are cut and mixed    *)
(* and whatever the timers do (Summary: "lessons completed without         *)
(* timeout").  A skipped lesson is counted with them.                      *)
PassMeansRan ==
    main.at = "end" /\ main.ok /\ mode # "skip" =>
        \A n \in Steps : n \in DOMAIN ran /\ (mode = "shell" => ran[n] = Zero)

(* A lesson fails only for a cause: a time limit that passed, a session    *)
(* that did not start, or a step that ended with another status.           *)
FailMeansCause ==
    main.at = "end" /\ ~main.ok =>
        causes # {} \/ (mode = "shell" /\ \E n \in DOMAIN ran : ran[n] # Zero)

(* Validation of a lesson comes to an end whatever its REPLs and steps do, *)
(* unless a process that a step left behind outlives its REPL: Close waits *)
(* for as long as it holds the pipes.                                      *)
Outlived == main.at = "reap" /\ ~repl[Closing].alive /\ repl[Closing].child

Terminates == <>(main.at = "end") \/ <>[]Outlived
==============================================================================
