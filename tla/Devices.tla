------------------------------ MODULE Devices -------------------------------
(***************************************************************************)
(* The two devices whose interrupt handlers hand something to sleeping     *)
(* processes: the disk under the buffer cache, and the keyboard under the  *)
(* console.  They share no state and no lock; a behaviour drives one of    *)
(* them and leaves the other as it was at boot.                            *)
(***************************************************************************)
EXTENDS BufCache

CONSTANTS Chars, INPUT_BUF, Wrap, MaxRead, MaxKeys

\* The indices wrap around at a multiple of the size of the ring, beyond it.
ASSUME ConsoleAssumption ==
  /\ INPUT_BUF \in Nat \ {0} /\ Wrap \in Nat /\ MaxRead \in Nat
  /\ \E m \in 2..Wrap : Wrap = m * INPUT_BUF

VARIABLES
  device,          \* the device a behaviour is about
  input, r, w, e, rd, keys

C == INSTANCE Console WITH buf <- input, Readers <- Procs

keyboardVars == <<input, r, w, e, rd, keys>>
devVars == <<device, vars, keyboardVars>>

\* The values are interchangeable, so one of them may fill the disk at first.
DevInit ==
  /\ device \in {"disk", "keyboard"}
  /\ Init /\ C!Init
  /\ disk = [n \in Blocks |-> CHOOSE v \in Vals : TRUE]
  /\ device = "keyboard" => driver = "ide"

Disk(A) == device = "disk" /\ A /\ UNCHANGED <<device, keyboardVars>>
Keyboard(A) == device = "keyboard" /\ A /\ UNCHANGED <<device, vars>>

DevNext == Disk(Next) \/ Keyboard(C!Next)

\* The drive finishes its command, and a runnable process is scheduled.
DevSpec ==
  /\ DevInit /\ [][DevNext]_devVars
  /\ WF_devVars(Disk(~Panicked /\ ideintr))
  /\ \A p \in Procs : WF_devVars(\/ Disk(~Panicked /\ iderw_test(p))
                                 \/ Keyboard(C!consoleread(p)))

-----------------------------------------------------------------------------
\* The ring of console.c implements the line discipline: full or wrapped
\* around, with readers that stop in the middle of a line, no character is
\* lost, repeated or overwritten before it is read.
ImplementsLines == C!LI!Spec

\* No sleeper is forgotten.  Whoever sleeps in acquiresleep waits for a holder,
\* whoever sleeps in iderw has its buffer in the queue with the drive at work
\* on the first of it, and a reader sleeps in consoleread only while nothing is
\* ready and nobody killed it.
SleepersAwaited == DiskSleepersAwaited /\ C!ReadersAwaited

Waiting(p) ==
  IF device = "disk" THEN pc[p] = "iowait" ELSE rd[p].pc # "idle" /\ r # w
Served(p) ==
  IF device = "disk" THEN pc[p] = "using" \/ Panicked ELSE rd[p].pc = "idle" \/ r = w

\* Every request of iderw returns, whatever else is queued and whoever is
\* killed meanwhile, unless the kernel panics for want of a buffer; and a
\* reader in consoleread does not stay there while a line is ready.
RequestsReturn == \A p \in Procs : Waiting(p) ~> Served(p)
=============================================================================
