----------------------------- MODULE AtomicRegs -----------------------------
(***************************************************************************)
(* What enc28j60.c promises its callers: a file of registers on which      *)
(* every public call - a byte, a 16-bit register, a PHY register, a buffer *)
(* transfer with its address - happens at once, whatever other threads     *)
(* call meanwhile.  Banks, the shared SPI buffers and the mutex are gone.  *)
(***************************************************************************)
EXTENDS EncRegs

CONSTANTS Threads, Calls      \* Calls: the sequences of accesses one may ask for

VARIABLES file,               \* the registers
          req,                \* req[t]: the call t waits for, << >> if none
          ans                 \* ans[t]: what each access of t's last call reported

avars == <<file, req, ans>>

Init == /\ file \in [Stored -> 0..255]
        /\ req = [t \in Threads |-> << >>]
        /\ ans = [t \in Threads |-> << >>]

Ask(t) == /\ req[t] = << >>
          /\ req' \in [Threads -> Calls \cup {<< >>}]
          /\ req'[t] # << >>
          /\ \A u \in Threads \ {t} : req'[u] = req[u]
          /\ ans' = [ans EXCEPT ![t] = << >>]
          /\ UNCHANGED file

\* Files(f, b)[i] is what the first i accesses of the call b make of the file f.
Files(f, b) ==
    LET files[i \in 0..Len(b)] ==
            IF i = 0 THEN f ELSE Effect(files[i-1], b[i], b[i].a % 128)
    IN  files

Perform(t) ==
    LET b == req[t]
        files == Files(file, b)
    IN  /\ b # << >>
        /\ file' = files[Len(b)]
        /\ req' = [req EXCEPT ![t] = << >>]
        /\ ans' \in [Threads -> Seq(Nat)]
        /\ Len(ans'[t]) = Len(b)
        /\ \A i \in 1..Len(b) :
              Volatile(b[i]) \/ ans'[t][i] = Answer(files[i-1], b[i], b[i].a % 128)
        /\ \A u \in Threads \ {t} : ans'[u] = ans[u]

Next == \E t \in Threads : Ask(t) \/ Perform(t)

Spec == Init /\ [][Next]_avars
=============================================================================
