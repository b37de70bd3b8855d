----------------------------- MODULE PagedMachine -----------------------------
(***************************************************************************)
(* What the executor, the MMU and the dispatcher promise together: each    *)
(* process computes on the places where its pages lie - which other        *)
(* processes see exactly if pages of theirs lie there too -, with          *)
(* registers of its own that survive while it is off the threads.          *)
(*                                                                         *)
(* Trust is lost when a process names the page just behind its memory, or  *)
(* one that the same thread has used before for a process that has it      *)
(* somewhere else.  After that nothing is promised.                        *)
(***************************************************************************)
EXTENDS Instructions

CONSTANTS
  Processes,
  null_process,     \* whose memory the threads use until they are dispatched to
  Threads,
  FrameWords,       \* the words of a page
  Pages,            \* of each process: how many pages it has
  Place,            \* of each process: where each of its pages lies
  Gone              \* the context of a thread that has been dispatched to

VARIABLES
  ctx,              \* the contexts of the processes, and of the threads at first
  mem,              \* what is in each place
  on,               \* whose context is on each thread
  used,             \* which pages of which process each thread has used
  trusted,
  ended             \* the program has ended

pvars == <<ctx, mem, on, used, trusted, ended>>

PageOf(va) == va \div FrameWords
Places == UNION {{Place[x][p] : p \in 0 .. Pages[x] - 1} : x \in Processes}

(* What the process x has at the address va, and the memory once w is there. *)
Word(x, va) == mem[Place[x][PageOf(va)]][va % FrameWords]
Stored(x, va, w) == [mem EXCEPT ![Place[x][PageOf(va)]][va % FrameWords] = w]

Owner(j) == IF j \in Processes THEN j ELSE null_process

PInit ==
  /\ mem \in [Places -> [0 .. FrameWords - 1 -> Words]]
  /\ \A j \in Processes \cup Threads : ctx[j] \in Contexts
  /\ on = [t \in Threads |-> t]
  /\ used = [t \in Threads |-> {}]
  /\ trusted = TRUE
  /\ ended = FALSE

Has(x, va) == PageOf(va) < Pages[x]

SamePlace(x, y, va) == Has(x, va) /\ Place[x][PageOf(va)] = Place[y][PageOf(va)]

Doubtful(t, x, va) ==
  \/ PageOf(va) = Pages[x]
  \/ \E y \in Processes \ {x} : <<y, PageOf(va)>> \in used[t] /\ ~SamePlace(x, y, va)

(* The process x uses the addresses vas on thread t, and trust stays.      *)
Uses(t, x, vas) ==
  /\ \A va \in vas : Has(x, va) /\ ~Doubtful(t, x, va)
  /\ used' = [used EXCEPT ![t] = @ \cup {<<x, PageOf(va)>> : va \in vas}]

PStep(t) ==
  LET j == on[t]
      x == Owner(j)
      c == ctx[j]
      w == Word(x, c.PC)
  IN  /\ Has(x, c.PC)
      /\ \/ /\ Op(w) = "LD"
            /\ Uses(t, x, {c.PC, Address(w)})
            /\ ctx' = [ctx EXCEPT ![j] = Loaded(c, w, Word(x, Address(w)))]
            /\ UNCHANGED mem
         \/ /\ Op(w) = "ST"
            /\ Uses(t, x, {c.PC, Address(w)})
            /\ ctx' = [ctx EXCEPT ![j] = Advanced(c, w)]
            /\ mem' = Stored(x, Address(w), Unsigned(c.R[Target(w)]))
         \/ /\ Op(w) \in AluOps
            /\ Uses(t, x, {c.PC})
            /\ ~Traps(c, w)
            /\ ctx' = [ctx EXCEPT ![j] = Calculated(c, w)]
            /\ UNCHANGED mem
         \/ /\ Op(w) \in ControlOps
            /\ Uses(t, x, {c.PC})
            /\ ctx' = [ctx EXCEPT ![j] = Jumped(c, w)]
            /\ UNCHANGED mem
      /\ UNCHANGED <<on, trusted, ended>>

(* An instruction ends the program only if its process has no such page,   *)
(* or if it traps.                                                         *)
PFault(t) ==
  LET x == Owner(on[t])
      c == ctx[on[t]]
      w == Word(x, c.PC)
  IN  /\ \/ PageOf(c.PC) > Pages[x]
         \/ Has(x, c.PC) /\ Op(w) \in {"LD", "ST"} /\ PageOf(Address(w)) > Pages[x]
         \/ Has(x, c.PC) /\ Traps(c, w)
      /\ ended' = TRUE
      /\ UNCHANGED <<ctx, mem, on, used, trusted>>

PSwitch(t, y) ==
  /\ on' = [on EXCEPT ![t] = y]
  /\ ctx' = IF on[t] \in Threads THEN [ctx EXCEPT ![on[t]] = Gone] ELSE ctx
  /\ UNCHANGED <<mem, used, trusted, ended>>

Distrust(t) ==
  LET x == Owner(on[t])
      c == ctx[on[t]]
      w == Word(x, c.PC)
  IN  /\ trusted' = FALSE
      /\ \/ Doubtful(t, x, c.PC)
         \/ Has(x, c.PC) /\ Op(w) \in {"LD", "ST"} /\ Doubtful(t, x, Address(w))

PNext ==
  IF trusted
  THEN ~ended /\ \E t \in Threads :
         PStep(t) \/ PFault(t) \/ Distrust(t) \/ \E y \in Processes : PSwitch(t, y)
  ELSE trusted' = FALSE

PSpec == PInit /\ [][PNext]_pvars
=============================================================================
