-------------------------------- MODULE Terminal --------------------------------
(***************************************************************************)
(* GET and INKEY (terminal.c, expr_builtin.c) against the SIGINT handler   *)
(* of main.c.  Every system call and every store the handler can see is a  *)
(* step.  The handler preempts the program and runs to its end; both call  *)
(* tty_reset(), and so does the exit handler.                              *)
(*                                                                         *)
(* The terminal is its settings, changed as TCSAFLUSH does: what is typed  *)
(* and not read is lost.  A key typed in canonical mode stands for a line. *)
(* tcsetattr may fail, or succeed and have set only a part.                *)
(***************************************************************************)
EXTENDS Integers, Sequences

CONSTANTS
  Keys,        (* bytes a key sends                                        *)
  MaxTyped,    (* bound: keys waiting to be read                           *)
  MaxSignals,  (* bound: how often the user presses Ctrl-C                 *)
  MaxFaults    (* bound: calls of tcgetattr and tcsetattr that go wrong    *)

ASSUME KeysAssumption == Keys \subseteq 0..255
ASSUME TerminalBounds ==
  MaxTyped \in Nat /\ MaxSignals \in Nat /\ MaxFaults \in Nat

EOF == -1
EndOfFile == 256     \* no byte: a Ctrl-D, which ends a read of a line

Builtins == {"GET", "GET$", "INKEY", "INKEY$"}
Timed == {"INKEY", "INKEY$"}

Settings == {"canonical", "cbreak", "partly"}

(* Where get_char() and the two functions it calls are.                    *)
Positions == {"idle", "save", "set", "verify", "undo", "mark", "select",
              "waiting", "read", "reading", "cut", "test", "restore", "unmark",
              "return", "exited"}

VARIABLES
  termios,       (* the settings of the terminal                           *)
  typed,         (* keys waiting to be read, and whether they were echoed  *)
  save_termios, tty_state,
  at,            (* the next step of the program and of the handler        *)
  call,          (* the function that waits, and for a limited time or not *)
  status,        (* the status of get_char, and the key it read            *)
  value,         (* the value of the last function, NULL if it has none    *)
  errno, escape, interrupt,
  signals, faults,
  pressed,       (* history: Ctrl-C was pressed since the call began       *)
  lost           (* history: the old settings were not put back, or only   *)
                 (* in part, and the code did not notice                   *)

tty == <<termios, typed, save_termios, tty_state>>
report == <<call, status, value, errno, escape>>
flags == <<interrupt, signals, faults, pressed, lost>>
vars == <<tty, at, report, flags>>

NoKey == [key |-> -1, echoed |-> FALSE]

Init ==
  /\ termios = "canonical" /\ typed = <<>>
  /\ save_termios = "unset" /\ tty_state = "reset"
  /\ at = [main |-> "idle", handler |-> "none"]
  /\ call = [builtin |-> "none", timed |-> FALSE]
  /\ status = [result |-> 0, read |-> NoKey] /\ value = "NULL"
  /\ errno = "other" /\ escape = FALSE /\ interrupt = FALSE
  /\ signals = 0 /\ faults = 0 /\ pressed = FALSE /\ lost = FALSE

-----------------------------------------------------------------------------
(* The program goes from p to q, unless the handler runs.                  *)
Main(p, q) ==
  /\ at.handler = "none" /\ at.main = p
  /\ at' = [at EXCEPT !.main = q]

Faulty == faults < MaxFaults /\ faults' = faults + 1
Fault(e) == Faulty /\ errno' = e

Ends(result) == status' = [status EXCEPT !.result = result]

(* tty_cbreak refuses a terminal that is not in its reset state.           *)
StartCall(b, timed) ==
  /\ timed => b \in Timed
  /\ call' = [builtin |-> b, timed |-> timed]
  /\ escape' = FALSE /\ pressed' = FALSE
  /\ IF tty_state = "reset"
     THEN Main("idle", "save") /\ errno' = errno
          /\ status' = [result |-> 0, read |-> NoKey]
     ELSE Main("idle", "return") /\ errno' = "other"
          /\ status' = [result |-> EOF, read |-> NoKey]
  /\ UNCHANGED <<tty, value, interrupt, signals, faults, lost>>

Save ==
  /\ Main("save", "set") /\ save_termios' = termios
  /\ UNCHANGED <<termios, typed, tty_state, report, flags>>

(* TCSANOW in the place of TCSAFLUSH.                                      *)
SetNow ==
  /\ Main("set", "verify") /\ termios' = "cbreak"
  /\ UNCHANGED <<typed, save_termios, tty_state, report, flags>>

SetCbreak ==
  /\ Main("set", "verify") /\ termios' = "cbreak" /\ typed' = <<>>
  /\ UNCHANGED <<save_termios, tty_state, report, flags>>

SetInPart ==
  /\ Main("set", "verify") /\ termios' = "partly" /\ typed' = <<>> /\ Faulty
  /\ UNCHANGED <<save_termios, tty_state, report, interrupt, signals, pressed, lost>>

(* The settings read back are what was set, or not all of it.              *)
Verify ==
  /\ IF termios = "cbreak"
     THEN Main("verify", "mark") /\ UNCHANGED <<status, errno>>
     ELSE Main("verify", "undo") /\ Ends(EOF) /\ errno' = "other"
  /\ UNCHANGED <<tty, call, value, escape, flags>>

(* A call of tty_cbreak that fails.  After the last of the three, the old  *)
(* settings are put back.                                                  *)
CbreakFails ==
  /\ \/ Main("save", "return") \/ Main("set", "return") \/ Main("verify", "undo")
  /\ Fault("other") /\ Ends(EOF)
  /\ UNCHANGED <<tty, call, value, escape, interrupt, signals, pressed, lost>>

Undo ==
  /\ Main("undo", "return") /\ termios' = save_termios /\ typed' = <<>>
  /\ UNCHANGED <<save_termios, tty_state, report, flags>>

(* Nobody looks whether the settings have been put back.                   *)
UndoFails ==
  /\ Main("undo", "return") /\ Faulty /\ lost' = TRUE
  /\ UNCHANGED <<tty, report, interrupt, signals, pressed>>

Mark ==
  /\ Main("mark", "select") /\ tty_state' = "cbreak"
  /\ UNCHANGED <<termios, typed, save_termios, report, flags>>

Block ==
  /\ Main("select", "waiting") \/ Main("read", "reading")
  /\ UNCHANGED <<tty, report, flags>>

Ready ==
  Main("waiting", "read") /\ typed # <<>> /\ UNCHANGED <<tty, report, flags>>

(* The timeout is set when hsecs is negative.                              *)
TimeOutSwapped ==
  /\ Main("waiting", "test") /\ ~call.timed /\ typed = <<>> /\ Ends(0)
  /\ UNCHANGED <<tty, call, value, errno, escape, flags>>

TimeOut ==
  /\ Main("waiting", "test") /\ call.timed /\ typed = <<>> /\ Ends(0)
  /\ UNCHANGED <<tty, call, value, errno, escape, flags>>

(* As if char were unsigned.                                               *)
UnsignedChar(key) == IF key = EndOfFile THEN EOF ELSE key

(* A character is signed here: the bytes above 127 are negative.  A read   *)
(* that meets the end of the file leaves errno as it was.                  *)
Char(key) ==
  IF key = EndOfFile THEN EOF ELSE IF key > 127 THEN key - 256 ELSE key

Read ==
  /\ Main("reading", "test") /\ typed # <<>> /\ typed' = Tail(typed)
  /\ status' = [result |-> Char(Head(typed).key), read |-> Head(typed)]
  /\ escape' = (Head(typed).key = EndOfFile /\ errno = "EINTR")
  /\ UNCHANGED <<termios, save_termios, tty_state, call, value, errno, flags>>

(* Escape is not reported.                                                 *)
MuteInterrupt ==
  /\ Main("cut", "test") /\ errno' = "EINTR" /\ Ends(EOF)
  /\ UNCHANGED <<tty, call, value, escape, flags>>

(* An interrupted system call is made again.                               *)
Restarted ==
  /\ Main("cut", "select") /\ errno' = "EINTR"
  /\ UNCHANGED <<tty, call, status, value, escape, flags>>

(* select or read was interrupted.                                         *)
Interrupted ==
  /\ Main("cut", "test") /\ errno' = "EINTR" /\ escape' = TRUE /\ Ends(EOF)
  /\ UNCHANGED <<tty, call, value, flags>>

(* The functions' results; 0 from get_char means that no key came.         *)
NoneOf(b) == IF b \in {"GET", "INKEY"} THEN -1 ELSE ""
Value(b, c) == IF c = EOF THEN "NULL" ELSE IF c = 0 THEN NoneOf(b) ELSE c

Return ==
  /\ IF call.builtin = "exit"
     THEN Main("return", "exited") /\ value' = value
     ELSE Main("return", "idle") /\ value' = Value(call.builtin, status.result)
  /\ UNCHANGED <<tty, call, status, errno, escape, flags>>

(* The program ends: tty_atexit.                                           *)
Exit ==
  /\ Main("idle", "test") /\ call' = [builtin |-> "exit", timed |-> FALSE]
  /\ UNCHANGED <<tty, status, value, errno, escape, flags>>

-----------------------------------------------------------------------------
(* tty_reset, called by the program and by the handler.                    *)

Runs(t) == t = "main" => at.handler = "none"
After(t) == IF t = "main" THEN "return" ELSE "flag"
Goes(t, p, q) == Runs(t) /\ at[t] = p /\ at' = [at EXCEPT ![t] = q]

Test(t) ==
  /\ Goes(t, "test", IF tty_state = "reset" THEN After(t) ELSE "restore")
  /\ UNCHANGED <<tty, report, flags>>

Restore(t) ==
  /\ Goes(t, "restore", "unmark") /\ termios' = save_termios /\ typed' = <<>>
  /\ UNCHANGED <<save_termios, tty_state, report, flags>>

(* The state is reset although the terminal is not.                        *)
FailureIgnored(t) ==
  /\ Goes(t, "restore", "unmark") /\ Fault("other")
  /\ UNCHANGED <<tty, call, status, value, escape, interrupt, signals, pressed, lost>>

RestoreFails(t) ==
  /\ Goes(t, "restore", After(t)) /\ Fault("other")
  /\ UNCHANGED <<tty, call, status, value, escape, interrupt, signals, pressed, lost>>

(* tcsetattr puts back a part, here or when tty_cbreak undoes its work.    *)
PutBackInPart(t) ==
  /\ Goes(t, "restore", "unmark") \/ (t = "main" /\ Main("undo", "return"))
  /\ termios' = "partly" /\ typed' = <<>> /\ Faulty /\ lost' = TRUE
  /\ UNCHANGED <<save_termios, tty_state, report, interrupt, signals, pressed>>

Unmark(t) ==
  /\ Goes(t, "unmark", After(t)) /\ tty_state' = "reset"
  /\ UNCHANGED <<termios, typed, save_termios, report, flags>>

Flag ==
  /\ Goes("handler", "flag", "none") /\ interrupt' = TRUE
  /\ UNCHANGED <<tty, report, signals, faults, pressed, lost>>

(* The user.  A signal ends the system call that has nothing to return.    *)

Blocked == at.main \in {"waiting", "reading"} /\ typed = <<>>

Signal ==
  /\ signals < MaxSignals /\ signals' = signals + 1
  /\ at.handler = "none" /\ at.main # "exited"
  /\ at' = [main |-> IF Blocked THEN "cut" ELSE at.main, handler |-> "test"]
  /\ pressed' = TRUE
  /\ UNCHANGED <<tty, report, interrupt, faults, lost>>

Type(k) ==
  /\ Len(typed) < MaxTyped /\ at.main # "exited"
  /\ k = EndOfFile => termios # "cbreak"
  /\ \E echoed \in BOOLEAN :
       /\ termios # "partly" => echoed = (termios = "canonical")
       /\ typed' = Append(typed, [key |-> k, echoed |-> echoed])
  /\ UNCHANGED <<at, termios, save_termios, tty_state, report, flags>>

-----------------------------------------------------------------------------
get_char == Save \/ SetCbreak \/ Verify \/ Undo \/ Mark \/ Block \/ Ready
            \/ TimeOut \/ Read \/ Interrupted \/ Return
tty_reset(t) == Test(t) \/ Restore(t) \/ Unmark(t)
handler == tty_reset("handler") \/ Flag

Next ==
  \/ \E b \in Builtins, timed \in BOOLEAN : StartCall(b, timed)
  \/ get_char \/ CbreakFails \/ SetInPart \/ UndoFails \/ Exit
  \/ tty_reset("main") \/ handler
  \/ \E t \in {"main", "handler"} : RestoreFails(t) \/ PutBackInPart(t)
  \/ Signal
  \/ \E k \in Keys \cup {EndOfFile} : Type(k)

(* The process is scheduled, timers expire and a handler, once it starts,  *)
(* runs to its end.  The user need not do anything.                        *)
Fairness == WF_vars(get_char \/ tty_reset("main")) /\ WF_vars(handler)

Spec == Init /\ [][Next]_vars /\ Fairness

-----------------------------------------------------------------------------
Key == [key: Keys \cup {EndOfFile}, echoed: BOOLEAN]

(* The variables have their types; only the handler raises the flag.       *)
TypeOK ==
  /\ termios \in Settings /\ save_termios \in Settings \cup {"unset"}
  /\ tty_state \in {"reset", "cbreak"}
  /\ typed \in Seq(Key) /\ Len(typed) <= MaxTyped
  /\ at.main \in Positions
  /\ at.handler \in {"none", "test", "restore", "unmark", "flag"}
  /\ call.builtin \in Builtins \cup {"none", "exit"}
  /\ status.result \in -128..127
  /\ interrupt => signals > 0

(* The terminal is in raw mode without the program knowing it only while   *)
(* tty_cbreak is at work, wherever Ctrl-C comes and whatever call fails,   *)
(* until the one call that puts the settings back does not and the code    *)
(* goes on as if it had.  So the exit handler knows whether there is       *)
(* something to restore, and what it restores are the settings the user    *)
(* had.                                                                    *)
RawIsKnown ==
  ~lost =>
    /\ termios # "canonical" /\ tty_state = "reset"
         => at.main \in {"verify", "undo", "mark"}
    /\ save_termios \in {"unset", "canonical"}

(* GET reads a key without echo (terminal.c:63), unless Ctrl-C came in     *)
(* this very call.                                                         *)
NotEchoed == status.read.echoed => pressed

(* When a function has no value, Ctrl-C explains it, a call that failed,   *)
(* the end of the file or the byte that looks like it; and Escape is       *)
(* reported only for a Ctrl-C in this very call, which the handler has     *)
(* seen: an errno left by an earlier one does not make it.                 *)
NoValueIsExplained ==
  /\ at.main = "return" /\ status.result = EOF
       => escape \/ faults > 0 \/ status.read.key \in {255, EndOfFile}
  /\ escape => pressed /\ interrupt

(* Ctrl-C ends the wait it interrupts, with the Escape error.              *)
InterruptEndsWait == at.main = "cut" ~> at.main = "idle" /\ escape

Busy == at.main \notin {"idle", "exited"}

(* INKEY ends when its time is over, and a key ends GET, unless Ctrl-C     *)
(* comes in this very call.                                                *)
WaitEnds ==
  (Busy /\ call.timed) \/ (at.main = "waiting" /\ typed # <<>>)
    ~> ~Busy \/ pressed

(* terminal.c:63: get_char gets a character without echo.                  *)
NeverEchoed == ~status.read.echoed

(* terminal.c:66: EOF means an error and 0 a timeout, not a key.           *)
OnlyWithoutInput ==
  at.main = "return" /\ status.result \in {EOF, 0} => status.read.key \notin Keys

(* terminal.c:129: when tty_reset does nothing, because the state is       *)
(* reset, the terminal is in canonical mode already.                       *)
AlreadyCanonical ==
  at.main = "test" /\ tty_state = "reset" => termios = "canonical"

(* terminal.c:64: hsecs is the maximum time to wait.                       *)
TimedWaitEnds == Busy /\ call.timed ~> ~Busy
================================================================================
