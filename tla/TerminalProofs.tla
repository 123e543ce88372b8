----------------------------- MODULE TerminalProofs -----------------------------
(***************************************************************************)
(* The safety invariants of the terminal, for any keys and any number of   *)
(* keys typed, of Ctrl-C and of calls that go wrong.                       *)
(***************************************************************************)
EXTENDS Terminal, SequenceTheorems, TLAPS

-----------------------------------------------------------------------------
(* The inductive invariant.                                                *)

HandlerPositions == {"none", "test", "restore", "unmark", "flag"}

(* Records are what they seem, and the counters count.                     *)
Shapes ==
  /\ at \in [main: Positions, handler: HandlerPositions]
  /\ call \in [builtin: Builtins \cup {"none", "exit"}, timed: BOOLEAN]
  /\ status \in [result: -128..127, read: Key \cup {NoKey}]
  /\ signals \in Nat /\ faults \in Nat

(* The handler runs, and a call is cut short, only after Ctrl-C.           *)
HandlerWaits ==
  /\ ~pressed => at.handler = "none" /\ at.main # "cut"
  /\ pressed => signals > 0

(* There are settings to go back to wherever they are used.                *)
SavedWhenUsed ==
  save_termios = "unset" =>
    /\ tty_state = "reset"
    /\ at.main \notin {"set", "verify", "undo", "mark", "restore"}
    /\ at.handler # "restore"

(* tty_cbreak works on a terminal that was reset, and the state of a       *)
(* terminal that has been restored is set next.  Settings that were made   *)
(* in part are found by the verification.  The handler works on a terminal *)
(* that is marked.                                                         *)
StateFollows ==
  /\ at.main \in {"save", "set", "verify", "undo", "mark"} => tty_state = "reset"
  /\ ~lost /\ (at.main = "unmark" \/ at.handler = "unmark") => termios = "canonical"
  /\ at.main = "verify" => termios # "canonical"
  /\ at.handler \in {"restore", "unmark"} => tty_state = "cbreak"
  /\ ~lost /\ termios = "partly" => at.main \in {"verify", "undo"}

(* From tty_cbreak to read, unless Ctrl-C came in this call, no key that   *)
(* waits was echoed.                                                       *)
Quiet ==
  ~pressed /\ at.main \in {"verify", "mark", "select", "waiting", "read", "reading"} =>
    \/ /\ termios = "cbreak"
       /\ \A i \in DOMAIN typed : ~typed[i].echoed /\ typed[i].key # EndOfFile
    \/ at.main = "verify" /\ termios # "cbreak"

(* Between two calls the terminal is marked only if it could not be reset, *)
(* and settings in part are a fault.                                       *)
MarkedByFailure ==
  /\ tty_state = "cbreak"
       /\ at.main \in {"idle", "save", "set", "verify", "undo", "mark", "return"}
     => faults > 0
  /\ termios = "partly" \/ save_termios = "partly" => faults > 0

(* Why there is an end of file, a call that was cut short, an EINTR.       *)
Explained ==
  /\ status.result = EOF =>
       escape \/ faults > 0 \/ status.read.key \in {255, EndOfFile}
  /\ at.main = "cut" /\ at.handler = "none" => interrupt
  /\ errno = "EINTR" \/ escape => interrupt
  /\ escape => pressed

Inv ==
  /\ TypeOK /\ Shapes /\ HandlerWaits /\ SavedWhenUsed /\ StateFollows
  /\ RawIsKnown /\ Quiet /\ NotEchoed /\ MarkedByFailure /\ Explained

-----------------------------------------------------------------------------
(* The terminal's invariant holds before the first key.                    *)
LEMMA InvInit == Init => Inv
<1> SUFFICES ASSUME Init PROVE Inv
  OBVIOUS
<1> USE DEF Init
<1>1. TypeOK
  BY TerminalBounds DEF TypeOK, Settings, Positions, Builtins
<1>2. Shapes
  BY DEF Shapes, Positions, HandlerPositions, Builtins, NoKey, Key
<1>3. HandlerWaits
  BY Zenon DEF HandlerWaits
<1>9. SavedWhenUsed /\ StateFollows /\ RawIsKnown
  BY DEF SavedWhenUsed, StateFollows, RawIsKnown
<1>4. at.main \notin {"verify", "mark", "select", "waiting", "read", "reading"}
  OBVIOUS
<1>5. NotEchoed
  BY Zenon DEF NotEchoed, NoKey
<1>6. Explained
  BY DEF Explained, EOF
<1>7. Quiet
  BY <1>4, Zenon DEF Quiet
<1>8. MarkedByFailure
  BY DEF MarkedByFailure
<1> QED BY <1>1, <1>2, <1>3, <1>5, <1>6, <1>7, <1>8, <1>9 DEF Inv

-----------------------------------------------------------------------------
(* A key read is returned as a signed char.                                *)
LEMMA CharIsSigned ==
  ASSUME NEW k \in Key
  PROVE  /\ Char(k.key) \in -128..127
         /\ Char(k.key) = EOF => k.key \in {255, EndOfFile}
<1>1. k.key \in 0..255 \/ k.key = EndOfFile
  BY KeysAssumption DEF Key
<1> QED BY <1>1 DEF Char, EOF, EndOfFile

(* What read() takes is the first of the keys that wait.                   *)
LEMMA FirstKey ==
  ASSUME typed \in Seq(Key), typed # <<>>
  PROVE  /\ Head(typed) \in Key /\ Head(typed) = typed[1] /\ 1 \in DOMAIN typed
         /\ Tail(typed) \in Seq(Key)
         /\ Len(typed) <= MaxTyped => Len(Tail(typed)) <= MaxTyped
         /\ \A i \in DOMAIN Tail(typed) : /\ Tail(typed)[i] = typed[i + 1]
                                          /\ i + 1 \in DOMAIN typed
BY TerminalBounds

(* Every step keeps the terminal's invariant.                              *)
LEMMA InvNext == Inv /\ [Next]_vars => Inv'
<1> SUFFICES ASSUME Inv, [Next]_vars PROVE Inv'
  OBVIOUS
<1> USE KeysAssumption, TerminalBounds
<1> USE DEF Inv, Settings, Positions, HandlerPositions, Builtins, Timed, EOF, EndOfFile,
        TypeOK, Shapes, HandlerWaits, SavedWhenUsed, StateFollows, RawIsKnown, Quiet, NotEchoed,
        MarkedByFailure, Explained, vars, tty, report, flags, Main, Goes, Runs, After, Fault, Faulty, Ends
<1>1. ASSUME NEW b \in Builtins, NEW timed \in BOOLEAN, StartCall(b, timed) PROVE Inv'
  <2>1. /\ at.main = "idle" /\ at.handler = "none" /\ pressed' = FALSE /\ escape' = FALSE
        /\ status'.read = NoKey
        /\ UNCHANGED <<tty, value, interrupt, signals, faults, lost>>
    BY <1>1 DEF StartCall
  <2>2. CASE tty_state = "reset"
    <3>1. /\ at' = [at EXCEPT !.main = "save"] /\ errno' = errno
          /\ status' = [result |-> 0, read |-> NoKey]
      BY <1>1, <2>2 DEF StartCall
    <3>2. TypeOK' /\ Shapes'
      BY <1>1, <2>1, <3>1 DEF StartCall, NoKey
    <3>3. HandlerWaits' /\ SavedWhenUsed' /\ StateFollows' /\ RawIsKnown' /\ Quiet'
      BY <2>1, <2>2, <3>1
    <3>4. NotEchoed' /\ MarkedByFailure' /\ Explained'
      BY <2>1, <2>2, <3>1 DEF NoKey
    <3> QED BY <3>2, <3>3, <3>4
  <2>3. CASE tty_state # "reset"
    <3>1. /\ at' = [at EXCEPT !.main = "return"] /\ errno' = "other"
          /\ status' = [result |-> EOF, read |-> NoKey]
      BY <1>1, <2>3 DEF StartCall
    <3>2. TypeOK' /\ Shapes'
      BY <1>1, <2>1, <3>1 DEF StartCall, NoKey
    <3>3. HandlerWaits' /\ SavedWhenUsed' /\ StateFollows' /\ RawIsKnown' /\ Quiet'
      BY <2>1, <2>3, <3>1
    <3>4. NotEchoed' /\ MarkedByFailure' /\ Explained'
      BY <2>1, <2>3, <3>1 DEF NoKey
    <3> QED BY <3>2, <3>3, <3>4
  <2> QED BY <2>2, <2>3
<1>2. CASE Save
  BY <1>2 DEF Save
<1>3. CASE SetCbreak
  BY <1>3 DEF SetCbreak
<1>4. CASE Verify
  <2>1. CASE termios = "cbreak"
    BY <1>4, <2>1 DEF Verify
  <2>2. CASE termios # "cbreak"
    <3>1. status' = [result |-> EOF, read |-> status.read] /\ at' = [at EXCEPT !.main = "undo"]
      BY <1>4, <2>2 DEF Verify
    <3>2. TypeOK' /\ HandlerWaits' /\ SavedWhenUsed' /\ StateFollows' /\ RawIsKnown'
      BY <1>4, <2>2, <3>1 DEF Verify
    <3>3. Shapes'
      BY <1>4, <2>2, <3>1 DEF Verify
    <3>4. faults > 0
      BY <1>4, <2>2 DEF Verify
    <3>5. Quiet' /\ NotEchoed' /\ MarkedByFailure'
      BY <1>4, <2>2, <3>1 DEF Verify
    <3>6. Explained'
      BY <1>4, <2>2, <3>1, <3>4 DEF Verify
    <3> QED BY <3>2, <3>3, <3>5, <3>6
  <2> QED BY <2>1, <2>2
<1>5. CASE Undo
  BY <1>5 DEF Undo
<1>6. CASE Mark
  BY <1>6 DEF Mark
<1>7. CASE Block
  BY <1>7 DEF Block
<1>8. CASE Ready
  BY <1>8 DEF Ready
<1>9. CASE TimeOut
  <2>1. status' = [result |-> 0, read |-> status.read]
    BY <1>9 DEF TimeOut
  <2>2. TypeOK' /\ HandlerWaits' /\ SavedWhenUsed' /\ StateFollows' /\ RawIsKnown'
    BY <1>9, <2>1 DEF TimeOut
  <2>3. Shapes'
    BY <1>9, <2>1 DEF TimeOut
  <2>4. Quiet' /\ NotEchoed' /\ MarkedByFailure' /\ Explained'
    BY <1>9, <2>1 DEF TimeOut
  <2> QED BY <2>2, <2>3, <2>4
<1>10. CASE Read
  <2>1. typed \in Seq(Key) /\ typed # <<>>
    BY <1>10 DEF Read
  <2> DEFINE c == Char(Head(typed).key)
  <2>2. c \in -128..127 /\ (c = EOF => Head(typed).key \in {255, EndOfFile})
    BY <2>1, FirstKey, CharIsSigned
  <2>3. status' = [result |-> c, read |-> Head(typed)]
    BY <1>10 DEF Read
  <2> HIDE DEF c
  <2>4. TypeOK'
    <3>1. typed' \in Seq(Key) /\ Len(typed') <= MaxTyped
      <4>1. typed' = Tail(typed) /\ Len(typed) <= MaxTyped
        BY <1>10 DEF Read
      <4>2. Tail(typed) \in Seq(Key) /\ Len(Tail(typed)) <= MaxTyped
        BY <2>1, <4>1, FirstKey, Zenon
      <4> QED BY <4>1, <4>2, Zenon
    <3>2. status'.result \in -128..127
      BY <2>2, <2>3
    <3> QED BY <1>10, <3>1, <3>2 DEF Read
  <2>5. Shapes'
    <3>1. status' \in [result: -128..127, read: Key \cup {NoKey}]
      BY <2>1, <2>2, <2>3, FirstKey
    <3> QED BY <1>10, <3>1 DEF Read
  <2>6. HandlerWaits' /\ SavedWhenUsed' /\ StateFollows' /\ RawIsKnown' /\ MarkedByFailure'
    BY <1>10 DEF Read
  <2>7. Quiet'
    BY <1>10 DEF Read
  <2>8. NotEchoed'
    <3>1. status'.read = typed[1] /\ 1 \in DOMAIN typed
      BY <2>1, <2>3, FirstKey
    <3>2. ~pressed => ~typed[1].echoed
      BY <1>10, <3>1 DEF Read
    <3>3. pressed' = pressed
      BY <1>10 DEF Read
    <3> QED BY <3>1, <3>2, <3>3, Zenon
  <2>9. Explained'
    <3>1. status'.result = EOF => status'.read.key \in {255, EndOfFile}
      BY <2>2, <2>3
    <3>2. escape' => interrupt'
      BY <1>10 DEF Read
    <3>3. escape' => pressed'
      <4>1. 1 \in DOMAIN typed /\ Head(typed) = typed[1]
        BY <2>1, FirstKey
      <4>2. ~pressed => typed[1].key # EndOfFile
        BY <1>10, <4>1 DEF Read
      <4>3. escape' => Head(typed).key = EndOfFile
        BY <1>10, Zenon DEF Read
      <4>4. pressed' = pressed
        BY <1>10 DEF Read
      <4> QED BY <4>1, <4>2, <4>3, <4>4, Zenon
    <3> QED BY <1>10, <3>1, <3>2, <3>3 DEF Read
  <2> QED BY <2>4, <2>5, <2>6, <2>7, <2>8, <2>9
<1>11. CASE Interrupted
  <2>1. status' = [result |-> EOF, read |-> status.read]
    BY <1>11 DEF Interrupted
  <2>2. TypeOK' /\ HandlerWaits' /\ SavedWhenUsed' /\ StateFollows' /\ RawIsKnown'
    BY <1>11, <2>1 DEF Interrupted
  <2>3. Shapes'
    BY <1>11, <2>1 DEF Interrupted
  <2>4. Quiet' /\ NotEchoed' /\ MarkedByFailure' /\ Explained'
    BY <1>11, <2>1 DEF Interrupted
  <2> QED BY <2>2, <2>3, <2>4
<1>12. CASE Return
  BY <1>12 DEF Return
<1>13. CASE CbreakFails
  <2>1. status' = [result |-> EOF, read |-> status.read]
    BY <1>13 DEF CbreakFails
  <2>2. TypeOK' /\ HandlerWaits' /\ SavedWhenUsed' /\ StateFollows' /\ RawIsKnown'
    BY <1>13, <2>1 DEF CbreakFails
  <2>3. Shapes'
    BY <1>13, <2>1 DEF CbreakFails
  <2>4. Quiet' /\ NotEchoed' /\ MarkedByFailure' /\ Explained'
    BY <1>13, <2>1 DEF CbreakFails
  <2> QED BY <2>2, <2>3, <2>4
<1>14. CASE Exit
  BY <1>14 DEF Exit
<1>15. ASSUME NEW t \in {"main", "handler"}, Test(t) PROVE Inv'
  BY <1>15 DEF Test
<1>16. ASSUME NEW t \in {"main", "handler"}, Restore(t) PROVE Inv'
  <2>1. /\ at' = [at EXCEPT ![t] = "unmark"] /\ at[t] = "restore" /\ Runs(t)
        /\ termios' = save_termios /\ typed' = <<>>
        /\ UNCHANGED <<save_termios, tty_state, report, flags>>
    BY <1>16 DEF Restore
  <2>2. TypeOK' /\ Shapes'
    BY <2>1
  <2>3. HandlerWaits' /\ SavedWhenUsed'
    BY <2>1
  <2>5. StateFollows' /\ RawIsKnown'
    <3>1. save_termios # "unset"
      BY <2>1
    <3>2. ~lost => termios' = "canonical"
      BY <2>1, <3>1
    <3>3. CASE t = "main"
      BY <2>1, <3>2, <3>3
    <3>4. CASE t = "handler"
      BY <2>1, <3>2, <3>4
    <3> QED BY <3>3, <3>4
  <2>4. Quiet' /\ NotEchoed' /\ MarkedByFailure' /\ Explained'
    BY <2>1
  <2> QED BY <2>2, <2>3, <2>4, <2>5
<1>17. ASSUME NEW t \in {"main", "handler"}, Unmark(t) PROVE Inv'
  BY <1>17 DEF Unmark
<1>18. ASSUME NEW t \in {"main", "handler"}, RestoreFails(t) PROVE Inv'
  BY <1>18 DEF RestoreFails
<1>19. CASE Flag
  BY <1>19 DEF Flag
<1>20. CASE Signal
  BY <1>20 DEF Signal, Blocked
<1>21. ASSUME NEW k \in Keys \cup {EndOfFile}, Type(k) PROVE Inv'
  <2>0. PICK echoed \in BOOLEAN :
          /\ termios # "partly" => echoed = (termios = "canonical")
          /\ typed' = Append(typed, [key |-> k, echoed |-> echoed])
    BY <1>21 DEF Type
  <2> DEFINE key == [key |-> k, echoed |-> echoed]
  <2>1. /\ key \in Key
        /\ termios = "cbreak" => ~key.echoed /\ key.key # EndOfFile
    BY <1>21, <2>0, Zenon DEF Key, Type
  <2>2. typed' = Append(typed, key)
    BY <2>0
  <2> HIDE DEF key
  <2>3. TypeOK' /\ Shapes'
    BY <1>21, <2>1, <2>2 DEF Type
  <2>4. Quiet'
    BY <1>21, <2>1, <2>2 DEF Type
  <2>5. /\ HandlerWaits' /\ SavedWhenUsed' /\ StateFollows' /\ RawIsKnown'
        /\ NotEchoed' /\ MarkedByFailure' /\ Explained'
    BY <1>21 DEF Type
  <2> QED BY <2>3, <2>4, <2>5
<1>22. CASE UNCHANGED vars
  BY <1>22
<1>23. CASE SetInPart
  BY <1>23 DEF SetInPart
<1>24. CASE UndoFails
  BY <1>24 DEF UndoFails
<1>25. ASSUME NEW t \in {"main", "handler"}, PutBackInPart(t) PROVE Inv'
  BY <1>25 DEF PutBackInPart
<1> QED BY <1>1, <1>2, <1>3, <1>4, <1>5, <1>6, <1>7, <1>8, <1>9, <1>10, <1>11, <1>12, <1>13, <1>14, <1>15, <1>16, <1>17, <1>18, <1>19, <1>20, <1>21, <1>22,
           <1>23, <1>24, <1>25
        DEF Next, get_char, tty_reset, handler

(* The invariant of all reachable states.                                  *)
LEMMA InvAlways == Spec => []Inv
<1> QED BY InvInit, InvNext, PTL DEF Spec

-----------------------------------------------------------------------------
(* Every variable keeps its type: what get_char returns is a signed byte,  *)
(* whatever keys are typed, and only the handler raises the flag.          *)
THEOREM TypesAreKept == Spec => []TypeOK
<1>1. Inv => TypeOK
  BY DEF Inv
<1> QED BY <1>1, InvAlways, PTL

(* However often Ctrl-C comes and calls of tcgetattr and tcsetattr fail or *)
(* do their work in part, raw mode is known to the exit handler but inside *)
(* tty_cbreak, and what tty_reset() puts back is canonical mode, as long   *)
(* as no call that should have put the settings back was taken for one     *)
(* that did: the undo at terminal.c:180 and 187, whose result nobody       *)
(* tests, or a restoration that was only partly made.                      *)
THEOREM RawModeIsKnown == Spec => []RawIsKnown
<1>1. Inv => RawIsKnown
  BY DEF Inv
<1> QED BY <1>1, InvAlways, PTL

(* get_char returns a key that was echoed only if Ctrl-C came in that call. *)
THEOREM KeysAreNotEchoed == Spec => []NotEchoed
<1>1. Inv => NotEchoed
  BY DEF Inv
<1> QED BY <1>1, InvAlways, PTL

(* GET and INKEY without a value have a reason, and Escape is reported     *)
(* only by a call in which Ctrl-C came.                                    *)
THEOREM NoValueHasAReason == Spec => []NoValueIsExplained
<1>1. Inv => NoValueIsExplained
  BY DEF Inv, Explained, NoValueIsExplained
<1> QED BY <1>1, InvAlways, PTL
===============================================================================
