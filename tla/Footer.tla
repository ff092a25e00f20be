------------------------------- MODULE Footer -------------------------------
(***************************************************************************)
(* The footer of a Pi process: which run of the checkout it shows          *)
(* (extensions/pi-next/commands-recovery.ts, live-ctx.ts and the selection *)
(* in loop-status.ts).  An auto command paints the footer from a timer,    *)
(* through whichever context the host has live; the host replaces sessions *)
(* and contexts, and with a reload the extension's memory, at any time.    *)
(*                                                                         *)
(* Of a text only its run and whether that ended is kept.  A context that  *)
(* has been replaced still tells its session but paints nothing.  Nothing  *)
(* writes controller.lock, so no controller is ever proven alive.          *)
(***************************************************************************)
EXTENDS Naturals, Sequences, FiniteSets

CONSTANTS
  Session,       \* the sessions of the process, each with a file
  Elsewhere,     \* the session of another process in the checkout
  Run,           \* run ids
  MaxCommands,   \* bound: auto and loop commands
  MaxContexts    \* bound: contexts the host opens, of sessions old and new

(* What is assumed of the constants.                                        *)
FooterAssumption ==
  Elsewhere \notin Session /\ 0 \notin Run /\ MaxCommands \in Nat /\ MaxContexts \in Nat \ {0}

VARIABLES
  opened,     \* the session of every context so far; the last context is live
  leaving,    \* the replacement under way: the session, and whether shutdown was told
  shown,      \* what the footer of the live context says
  state,      \* per run: its durable state
  saved,      \* per run: its status-binding.json
  instance,   \* how often the extension was loaded
  bound,      \* boundRunIds: per session, the run bound to it
  contexts,   \* contexts: per session, the context known for it, 0 if none
  bindings,   \* autoStatusBindings, in their order
  command     \* the commands, with the heartbeat of each auto command

vars == <<opened, leaving, shown, state, saved, instance, bound, contexts, bindings, command>>

None == 0
NoState == [status |-> "none", session |-> Elsewhere]
NoBinding == [owner |-> Elsewhere, file |-> Elsewhere, target |-> Elsewhere, text |-> "none", active |-> FALSE]
Staying == [session |-> Elsewhere, told |-> FALSE]
Nothing == [run |-> None, text |-> "none"]
Neutral == [run |-> None, text |-> "neutral"]

Last(seq) == seq[Len(seq)]
Commands == 1 .. Len(command)
Anywhere == Session \cup {Elsewhere}

TypeOK ==
  /\ opened \in Seq(Session) /\ opened # <<>>
  /\ leaving \in [session : Anywhere, told : BOOLEAN]
  /\ shown \in [run : Run \cup {None}, text : {"none", "neutral", "running", "ended"}]
  /\ state \in [Run -> [status : {"none", "running", "ended"}, session : Anywhere]]
  /\ \A r \in Run : saved[r].active \in BOOLEAN /\ {saved[r].owner, saved[r].file, saved[r].target} \subseteq Anywhere
  /\ instance \in Nat
  /\ bound \in [Session -> Run \cup {None}]
  /\ contexts \in [Session -> 0 .. Len(opened)]
  /\ \A k \in 1 .. Len(bindings) : bindings[k].run \in Run \cup {None} /\ bindings[k].of \in 0 .. Len(command)
  /\ \A c \in Commands :
       command[c] \in [at : {"preparing", "working", "finished", "ended"}, auto : BOOLEAN, context : 1 .. Len(opened),
                       instance : Nat, run : Run \cup {None}, beat : Run \cup {None}, first : BOOLEAN, strayed : BOOLEAN]

(* There may be a run of an earlier process, killed or ended, in a session  *)
(* that is open again, or a run of another process.                         *)
Init ==
  /\ \E s \in Session : opened = <<s>>
  /\ leaving = Staying /\ shown = Nothing
  /\ \/ state = [r \in Run |-> NoState] /\ saved = [r \in Run |-> NoBinding]
     \/ \E r \in Run, s \in Anywhere, status \in {"running", "ended"} :
          /\ state = [[q \in Run |-> NoState] EXCEPT ![r] = [status |-> status, session |-> s]]
          /\ saved = [[q \in Run |-> NoBinding] EXCEPT ![r] =
               [owner |-> s, file |-> s, target |-> Elsewhere, text |-> status, active |-> status = "running"]]
  /\ instance = 1
  /\ bound = [s \in Session |-> None]
  /\ contexts = [s \in Session |-> IF s = opened[1] THEN 1 ELSE 0]
  /\ bindings = <<>> /\ command = <<>>

-----------------------------------------------------------------------------
(* Operators named X_Y are X with a plausible bug; no specification uses    *)
(* them.  They show that the properties below would notice.                 *)

(* selectCurrentLoop: the run asked for, or the one run of the session.     *)
Selected(run, s) ==
  LET own == {r \in Run : state[r].status # "none" /\ IF run = None THEN state[r].session = s ELSE r = run} IN
  IF Cardinality(own) = 1 THEN CHOOSE r \in own : TRUE ELSE None

(* autoStatusText.                                                          *)
TextOf(run, s) ==
  LET r == Selected(run, s) IN
  IF r = None THEN Neutral ELSE [run |-> r, text |-> state[r].status]

(* What one handler works on: the contexts, the extension's memory, its     *)
(* files and the footer.                                                    *)
Memory ==
  [opened |-> opened, bound |-> bound, contexts |-> contexts, bindings |-> bindings, command |-> command,
   instance |-> instance, saved |-> saved, shown |-> shown]

Becomes(w) ==
  /\ opened' = w.opened /\ bound' = w.bound /\ contexts' = w.contexts /\ bindings' = w.bindings
  /\ command' = w.command /\ instance' = w.instance /\ saved' = w.saved /\ shown' = w.shown

Live(w) == Len(w.opened)
Own(w, c) == w.opened[w.command[c].context]

(* setLiveCtx with the live context: it is known for its session, contexts  *)
(* of sessions that were never bound to a run are forgotten.                *)
SetLive(w) ==
  [w EXCEPT !.contexts =
     [q \in Session |-> IF q = Last(w.opened) THEN Live(w) ELSE IF w.bound[q] = None THEN 0 ELSE @[q]]]

(* persistStatusBinding.                                                    *)
File(b) == [owner |-> b.owner, file |-> b.file, target |-> b.target, text |-> b.text, active |-> b.active]

Persist(w, k) ==
  IF w.bindings[k].run = None THEN w
  ELSE [w EXCEPT !.saved = [r \in Run |-> IF r = w.bindings[k].run THEN File(w.bindings[k]) ELSE @[r]]]

-----------------------------------------------------------------------------
(* The heartbeat of an auto command.                                        *)

BindingOf(w, c) == CHOOSE k \in 1 .. Len(w.bindings) : w.bindings[k].of = c

(* The contexts update may find: the one known for the session of the       *)
(* binding, unless it was replaced and collected; else the live one; else,  *)
(* at the end of the command, its own.  0 is none.                          *)
Found(w, c, final) ==
  LET s == w.bindings[BindingOf(w, c)].owner
      other == IF s = Own(w, c) THEN Live(w) ELSE IF final THEN w.command[c].context ELSE 0 IN
  IF w.contexts[s] = Live(w) THEN {Live(w)} ELSE {other} \cup ({w.contexts[s]} \ {0})

(* The run of the heartbeat, once it knows one: that of the context, or the *)
(* one run of the command's session.                                        *)
Beat(w, c, context) ==
  IF w.command[c].beat # None THEN w.command[c].beat
  ELSE IF w.bound[w.opened[context]] # None THEN w.bound[w.opened[context]]
  ELSE Selected(None, Own(w, c))

Adopt(w, c, context, r) ==
  LET k == BindingOf(w, c) IN
  IF r = None \/ w.bindings[k].run = r THEN w
  ELSE Persist([w EXCEPT !.bindings[k].run = r, !.bindings[k].owner = Own(w, c),
                         !.bindings[k].file = w.opened[context]], k)

(* update, with the context it finds.                                       *)
Paint(w, c, context) ==
  LET r == Beat(w, c, context)
      text == IF w.command[c].first THEN Neutral ELSE TextOf(r, Own(w, c))
      x == Adopt([w EXCEPT !.command[c].beat = r], c, context, r) IN
  [x EXCEPT !.shown = IF context = Live(w) THEN text ELSE @,
            !.bindings[BindingOf(x, c)].text = IF r = None THEN @ ELSE text.text]

Updates(w, c, final) ==
  {[IF context = 0 THEN w ELSE Paint(w, c, context) EXCEPT !.command[c].first = FALSE] :
     context \in Found(w, c, final)}

(* The bindings that instance n of the extension knows, and the first of    *)
(* those that fit.                                                          *)
Known(w, n) == {k \in 1 .. Len(w.bindings) : w.bindings[k].instance = n /\ w.bindings[k].active}
First(fit) == IF fit = {} THEN 0 ELSE CHOOSE k \in fit : \A j \in fit : k <= j

(* The listener of commands-recovery.ts: the first binding of the session   *)
(* that has no run yet, or this one, takes the run and is painted at once.  *)
Listener(w, n, s, r) == First({k \in Known(w, n) : w.bindings[k].owner = s /\ w.bindings[k].run \in {None, r}})

Told(w, n, s, r) ==
  LET k == Listener(w, n, s, r)
      x == Persist([w EXCEPT !.bindings[k].run = r, !.bindings[k].file = s], k) IN
  IF k = 0 THEN {w} ELSE IF n # w.instance \/ w.bindings[k].of = 0 THEN {x} ELSE Updates(x, w.bindings[k].of, FALSE)

(* bindLiveAutoRun with a context of session s.                             *)
Bound(w, s, context, r) ==
  Told([w EXCEPT !.contexts = [q \in Session |-> IF q = s THEN context ELSE IF w.bound[q] = r THEN 0 ELSE @[q]],
                 !.bound = [q \in Session |-> IF q = s THEN r ELSE IF @[q] = r THEN None ELSE @[q]]],
       w.instance, s, r)

-----------------------------------------------------------------------------
(* The commands.                                                            *)

(* /pi-next auto starts a heartbeat of its own, /pi-next-loop does not.     *)
Command(auto) ==
  [at |-> "preparing", auto |-> auto, context |-> Len(opened), instance |-> instance, run |-> None, beat |-> None,
   first |-> TRUE, strayed |-> FALSE]
Binding(s) ==
  [of |-> Len(command) + 1, instance |-> instance, run |-> None, owner |-> s, file |-> s, target |-> Elsewhere,
   text |-> "none", active |-> TRUE]

Enter(auto) ==
  /\ leaving = Staying /\ Len(command) < MaxCommands
  /\ LET w == [SetLive(Memory) EXCEPT !.command = Append(@, Command(auto))] IN
     IF ~ auto THEN Becomes(w)
     ELSE \E x \in Updates([w EXCEPT !.bindings = Append(@, Binding(Last(opened)))], Len(command) + 1, FALSE) : Becomes(x)
  /\ UNCHANGED <<leaving, state>>

(* The preflight is over: the run is bound, then its state is written.  A   *)
(* loop command may resume a run.                                           *)
Bind(c) ==
  /\ command[c].at = "preparing" /\ command[c].run = None
  /\ \E r \in Run :
       /\ \A d \in Commands : command[d].at # "ended" => command[d].run # r
       /\ state[r].status = "none" \/ (~ command[c].auto /\ state[r].status = "ended")
       /\ LET w == [Memory EXCEPT !.command[c].run = r] IN
          \E x \in (IF command[c].instance = instance THEN Bound(w, Own(w, c), command[c].context, r)
                    ELSE Told(w, command[c].instance, Own(w, c), r)) : Becomes(x)
  /\ UNCHANGED <<leaving, state>>

Work(c) ==
  /\ command[c].at = "preparing" /\ command[c].run # None
  /\ command' = [command EXCEPT ![c].at = "working"]
  /\ state' = [state EXCEPT ![command[c].run] = [status |-> "running", session |-> Own(Memory, c)]]
  /\ UNCHANGED <<opened, leaving, shown, saved, instance, bound, contexts, bindings>>

(* The command is over, its run ended; or it fails, and leaves the state    *)
(* as it is.                                                                *)
Finish(c) ==
  /\ command[c].at \in {"preparing", "working"}
  /\ \/ command[c].at = "working" /\ state' = [state EXCEPT ![command[c].run].status = "ended"]
     \/ UNCHANGED state
  /\ command' = [command EXCEPT ![c].at = "finished"]
  /\ UNCHANGED <<opened, leaving, shown, saved, instance, bound, contexts, bindings>>

(* stop: an auto command paints once more and gives its binding up.         *)
GiveUp(w, c) ==
  LET k == BindingOf(w, c)
      x == Persist([w EXCEPT !.bindings[k].active = FALSE], k) IN
  [x EXCEPT !.bindings = SubSeq(@, 1, k - 1) \o SubSeq(@, k + 1, Len(@))]

Stop(c) ==
  /\ command[c].at = "finished"
  /\ LET w == [Memory EXCEPT !.command[c].at = "ended"] IN
     IF ~ command[c].auto THEN Becomes(w)
     ELSE \E x \in (IF command[c].instance = instance THEN Updates(w, c, TRUE) ELSE {w}) : Becomes(GiveUp(x, c))
  /\ UNCHANGED <<leaving, state>>

(* The timer of a heartbeat.  That of an instance the host has replaced     *)
(* finds contexts that paint nothing.                                       *)
Tick(c) ==
  /\ command[c].auto /\ command[c].at # "ended" /\ command[c].instance = instance
  /\ \E x \in Updates(Memory, c, FALSE) : Becomes(x)
  /\ UNCHANGED <<leaving, state>>

(* /pi-next-loop clear.                                                     *)
Clear ==
  /\ leaving = Staying /\ shown # Nothing
  /\ shown' = Nothing
  /\ UNCHANGED <<opened, leaving, state, saved, instance, bound, contexts, bindings, command>>

-----------------------------------------------------------------------------
(* The host replaces the session.                                           *)

Departs(b, s) == b.instance = instance /\ b.active /\ s \in {b.file, b.owner}

Departing(b, s, target) == [b EXCEPT !.run = IF @ = None THEN bound[s] ELSE @, !.file = s, !.target = target]

(* session_shutdown: the bindings of the session are written to their       *)
(* files, in their order.  The host may name the session file that comes    *)
(* next.                                                                    *)
Shutdown ==
  /\ leaving = Staying /\ Len(opened) < MaxContexts
  /\ \E s \in Session, told \in BOOLEAN :
       LET depart == {k \in 1 .. Len(bindings) : Departs(bindings[k], Last(opened))} IN
       /\ leaving' = [session |-> s, told |-> told]
       /\ bindings' = [k \in 1 .. Len(bindings) |->
            IF k \in depart THEN Departing(bindings[k], Last(opened), IF told THEN s ELSE Elsewhere) ELSE bindings[k]]
       /\ saved' = [r \in Run |->
            LET of == {k \in depart : bindings'[k].run = r} IN
            IF of = {} THEN saved[r] ELSE File(bindings'[CHOOSE k \in of : \A j \in of : j <= k])]
  /\ UNCHANGED <<opened, shown, state, instance, bound, contexts, command>>

(* findReplacementBinding: in memory, or else among the files.              *)
Fits_PreviousOnly(b, s, previous) == b.active /\ previous # Elsewhere /\ b.file = previous
Fits(b, s, previous) == b.active /\ (b.target = s \/ (previous # Elsewhere /\ b.file = previous))

Replacement(w, s, previous) == First({k \in Known(w, w.instance) : Fits(w.bindings[k], s, previous)})

Recover(w, r) ==
  [w EXCEPT !.bindings = Append(@, [of |-> 0, instance |-> w.instance, run |-> r, owner |-> saved[r].owner,
     file |-> saved[r].file, target |-> saved[r].target, text |-> saved[r].text, active |-> TRUE])]

(* The binding that was found goes over to the new session.                 *)
HandOver(w, k, s) ==
  LET r == w.bindings[k].run
      text == IF state[r].status # "none" THEN state[r].status ELSE w.bindings[k].text
      x == Persist([w EXCEPT !.bindings[k].owner = s, !.bindings[k].file = s, !.bindings[k].target = Elsewhere], k) IN
  IF text = "none" THEN w
  ELSE [x EXCEPT !.bindings[k].text = text,
                 !.shown = IF text = "neutral" THEN Neutral ELSE [run |-> r, text |-> text]]

(* With a binding or without, the footer is painted once; no heartbeat is   *)
(* started, for no controller is proven to be this process.                 *)
Resumed(w, k, s) ==
  IF k # 0 /\ w.bindings[k].run # None
  THEN {HandOver(x, k, s) : x \in Bound(w, s, Live(w), w.bindings[k].run)}
  ELSE LET r == Selected(None, s) IN
       {IF r = None THEN w ELSE [w EXCEPT !.shown = [run |-> r, text |-> state[r].status]]}

(* A reload has loaded the extension anew, without what it had in memory.   *)
(* History: the commands that had no run when their session went.           *)
Loaded(reload) ==
  LET w == [Memory EXCEPT !.opened = Append(@, leaving.session), !.shown = Nothing,
                          !.command = [c \in Commands |-> [command[c] EXCEPT !.strayed = @ \/ command[c].run = None]]] IN
  IF ~ reload THEN w
  ELSE [w EXCEPT !.instance = @ + 1, !.bound = [s \in Session |-> None], !.contexts = [s \in Session |-> 0]]

(* session_start: the new context is live, its footer empty.  The host      *)
(* names the previous file unless it has named the next one.                *)
SessionStart ==
  LET s == leaving.session IN
  /\ leaving # Staying
  /\ \E reload, told \in BOOLEAN :
       LET w == SetLive(Loaded(reload))
           previous == IF told THEN Last(opened) ELSE Elsewhere
           k == Replacement(w, s, previous)
           found == {r \in Run : state[r].status # "none" /\ Fits(saved[r], s, previous)} IN
       /\ s = Last(opened) => reload
       /\ told \/ leaving.told
       /\ \E x \in (IF k # 0 \/ found = {} THEN Resumed(w, k, s)
                    ELSE UNION {Resumed(Recover(w, r), Len(bindings) + 1, s) : r \in found}) : Becomes(x)
  /\ leaving' = Staying
  /\ UNCHANGED state

Next ==
  \/ Enter(TRUE) \/ Enter(FALSE) \/ Clear \/ Shutdown \/ SessionStart
  \/ \E c \in Commands : Bind(c) \/ Work(c) \/ Finish(c) \/ Stop(c) \/ Tick(c)

Spec == Init /\ [][Next]_vars

-----------------------------------------------------------------------------
(* No other run, and no other command, was in a session of this process.    *)
Alone(c) ==
  /\ Commands = {c}
  /\ \A r \in Run : state[r].status # "none" => command[c].run = r \/ state[r].session = Elsewhere

(* While an auto command works, its heartbeat shows its run in whichever    *)
(* session is open, as long as the process has had no other run or command, *)
(* the extension was not loaded anew and the session did not go before the  *)
(* run was bound.                                                           *)
FollowsRun ==
  [][\A c \in Commands :
       Tick(c) /\ Alone(c) /\ command[c].at = "working" /\ ~ command[c].strayed
         => shown' = [run |-> command[c].run, text |-> "running"]]_vars
=============================================================================
