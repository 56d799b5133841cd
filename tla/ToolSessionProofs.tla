-------------------------- MODULE ToolSessionProofs --------------------------
(***************************************************************************)
(* Runs of the tools, any number of them at once.  What the exit status    *)
(* means: the vendor mailbox is not left open in silence                   *)
(* (LeftOpenReported) and status 0 means that the work was done            *)
(* (SuccessMeansDone), from the invariant Inv.  What the runs send: the    *)
(* table is gone through once, subcommand by subcommand, for every         *)
(* argument; the invariant IInv says that a run under way is a subcommand  *)
(* of the table that passed the option parser, within its own bounds, and  *)
(* TypeOK, TunnelledAlike and AnnouncedSize follow.                        *)
(***************************************************************************)
EXTENDS ToolSession, TLAPS

Stages == {"idle", "lookup", "unlock", "work", "lock", "exit"}

\* The shape of the state, as far as the argument needs it.
Shape ==
  /\ at \in [Runs -> Stages]
  /\ cmd = [p \in Runs |-> cmd[p]]
  /\ rc \in [Runs -> Int]
  /\ open \in BOOLEAN
  /\ did \in [Runs -> BOOLEAN] /\ more \in [Runs -> BOOLEAN]
  /\ failed \in [Runs -> BOOLEAN] /\ short \in [Runs -> BOOLEAN]

\* A subcommand under way is one of those offered; only those that need the
\* vendor mailbox unlock it.
CommandAt(p) ==
  /\ at[p] \notin {"idle", "exit"} =>
       cmd[p].locked \in BOOLEAN /\ cmd[p].accepts \subseteq {SUCCESS, BACKGROUND}
  /\ at[p] \in {"unlock", "lock"} => cmd[p].locked

\* The status says what happened, once the work is over.
Told(p) ==
  /\ rc[p] = 0 <=> ~failed[p]
  /\ rc[p] = 0 => (more[p] => cmd[p].pages = 0) /\ (did[p] \/ short[p])

\* Nothing has failed before the end of the work.
StatusAt(p) ==
  /\ at[p] \in {"idle", "lookup", "unlock", "work"} => ~failed[p]
  /\ at[p] = "lock" \/ (at[p] = "exit" /\ rc[p] # Signalled) => Told(p)
  /\ at[p] = "lock" => rc[p] # Signalled

\* A run that accounts for an open mailbox.
Reason(p) == Inside(p) \/ (at[p] = "exit" /\ rc[p] # 0) \/ short[p]

Inv ==
  /\ Shape
  /\ \A p \in Runs : CommandAt(p) /\ StatusAt(p)
  /\ open => \E p \in Runs : Reason(p)

-----------------------------------------------------------------------------

\* What the outcomes of a command have in common: a success that the device did
\* not carry out is a short answer of the tunnel.
LEMMA OutcomeShape ==
  ASSUME NEW c, NEW codes \in SUBSET {SUCCESS, BACKGROUND}, NEW allowed \in BOOLEAN,
         NEW o \in Outcomes(c, codes, allowed)
  PROVE  /\ o.rc \in Int /\ o.rc # Signalled
         /\ o.ran \in BOOLEAN /\ o.short \in BOOLEAN
         /\ o.rc \in {0, 1} => o.ran \/ o.short
<1>1. \/ o = Outcome(-1, FALSE, FALSE)
      \/ \E e \in Errors : o = Outcome(e, FALSE, FALSE)
      \/ \E ran \in {FALSE, allowed} :
           o = Outcome(IF c.measured THEN -1 ELSE 0, ran, TRUE)
      \/ \E code \in codes \cup {-1, BACKGROUND} : o = Outcome(code, TRUE, FALSE)
  BY Zenon DEF Outcomes
<1>2. ASSUME NEW a, NEW r, NEW l, o = Outcome(a, r, l)
      PROVE  o.rc = a /\ o.ran = r /\ o.short = l
  BY <1>2, Zenon DEF Outcome
<1>3. Errors \subseteq Nat \ {0, 1} /\ codes \subseteq {0, 1}
  BY SessionAssumption DEF SUCCESS, BACKGROUND
<1>4. CASE o = Outcome(-1, FALSE, FALSE)
  <2>1. o.rc = -1 /\ o.ran = FALSE /\ o.short = FALSE
    BY <1>2, <1>4, Zenon
  <2>2. o.rc \in Int /\ o.rc # Signalled /\ o.rc \notin {0, 1}
    BY <2>1 DEF Signalled
  <2> QED
    BY <2>1, <2>2, Zenon
<1>5. CASE \E e \in Errors : o = Outcome(e, FALSE, FALSE)
  <2>1. PICK e \in Errors : o.rc = e /\ o.ran = FALSE /\ o.short = FALSE
    BY <1>2, <1>5, Zenon
  <2>2. o.rc \in Int /\ o.rc # Signalled /\ o.rc \notin {0, 1}
    BY <2>1, <1>3 DEF Signalled
  <2> QED
    BY <2>1, <2>2, Zenon
<1>6. CASE \E ran \in {FALSE, allowed} :
             o = Outcome(IF c.measured THEN -1 ELSE 0, ran, TRUE)
  <2>1. PICK ran \in {FALSE, allowed} :
          /\ o.rc = (IF c.measured THEN -1 ELSE 0)
          /\ o.ran = ran /\ o.short = TRUE
    BY <1>2, <1>6, Zenon
  <2>2. o.rc \in Int /\ o.rc # Signalled
    BY <2>1 DEF Signalled
  <2> QED
    BY <2>1, <2>2, Zenon
<1>7. CASE \E code \in codes \cup {-1, BACKGROUND} : o = Outcome(code, TRUE, FALSE)
  <2>1. PICK code \in codes \cup {-1, BACKGROUND} :
          o.rc = code /\ o.ran = TRUE /\ o.short = FALSE
    BY <1>2, <1>7, Zenon
  <2>2. o.rc \in Int /\ o.rc # Signalled
    BY <2>1, <1>3 DEF Signalled, BACKGROUND
  <2> QED
    BY <2>1, <2>2, Zenon
<1> QED
  BY <1>1, <1>4, <1>5, <1>6, <1>7, Zenon

\* A step of run p concerns that run and the mailbox only.
Frame(p) ==
  \A q \in Runs \ {p} :
    /\ at'[q] = at[q] /\ cmd'[q] = cmd[q] /\ rc'[q] = rc[q]
    /\ did'[q] = did[q] /\ more'[q] = more[q]
    /\ failed'[q] = failed[q] /\ short'[q] = short[q]

\* A step of one run preserves the invariant when it does so for that run, and
\* a mailbox it leaves open is accounted for.
LEMMA OneRun ==
  ASSUME Inv, NEW p \in Runs, Shape', Frame(p), CommandAt(p)', StatusAt(p)',
         open' => Reason(p)' \/ (open /\ ~Reason(p))
  PROVE  Inv'
<1>1. ASSUME NEW q \in Runs, q # p
      PROVE  CommandAt(q)' /\ StatusAt(q)' /\ (Reason(q) => Reason(q)')
  <2>1. CommandAt(q) /\ StatusAt(q)
    BY Zenon DEF Inv
  <2>2. /\ at'[q] = at[q] /\ cmd'[q] = cmd[q] /\ rc'[q] = rc[q]
        /\ did'[q] = did[q] /\ more'[q] = more[q]
        /\ failed'[q] = failed[q] /\ short'[q] = short[q]
    BY <1>1, Zenon DEF Frame
  <2>3. CommandAt(q)'
    BY <2>1, <2>2, Zenon DEF CommandAt
  <2>4. StatusAt(q)'
    BY <2>1, <2>2, Zenon DEF StatusAt, Told
  <2>5. Reason(q) => Reason(q)'
    BY <2>2, Zenon DEF Reason, Inside
  <2> QED
    BY <2>3, <2>4, <2>5
<1>2. ASSUME open' PROVE \E q \in Runs : Reason(q)'
  <2>1. CASE Reason(p)'
    BY <2>1, Zenon
  <2>2. CASE open /\ ~Reason(p)
    <3>1. PICK q \in Runs : Reason(q)
      BY <2>2, Zenon DEF Inv
    <3>2. q # p
      BY <2>2, <3>1, Zenon
    <3> QED
      BY <1>1, <3>1, <3>2, Zenon
  <2> QED
    BY <1>2, <2>1, <2>2, Zenon
<1>3. \A q \in Runs : CommandAt(q)' /\ StatusAt(q)'
  BY <1>1, Zenon
<1> QED
  BY <1>2, <1>3, Zenon DEF Inv

\* Starting a subcommand: nothing is sent yet.
LEMMA StartInv ==
  ASSUME Inv, NEW p \in Runs, NEW c \in Offered[p], NEW k, Start(p, c, k)
  PROVE  Inv'
<1>1. c.locked \in BOOLEAN /\ c.accepts \subseteq {SUCCESS, BACKGROUND}
  BY SessionAssumption, Zenon
<1>2. at[p] = "idle" /\ Shape /\ StatusAt(p)
  BY Zenon DEF Start, Inv
<1>3. /\ at' = [at EXCEPT ![p] = IF k > 0 THEN "lookup" ELSE FirstStage(c)]
      /\ cmd' = [cmd EXCEPT ![p] = c]
      /\ rc' = rc /\ open' = open /\ did' = did /\ more' = more
      /\ failed' = failed /\ short' = short
  BY Zenon DEF Start
<1>4. Shape' /\ Frame(p) /\ cmd'[p] = c /\ at'[p] \in {"lookup", "unlock", "work"}
  BY <1>2, <1>3 DEF Shape, Frame, Stages, FirstStage
<1>5. CommandAt(p)'
  <2>1. at'[p] = "unlock" => c.locked
    BY <1>2, <1>3 DEF Shape, FirstStage
  <2> QED
    BY <1>1, <1>4, <2>1, Zenon DEF CommandAt
<1>6. StatusAt(p)'
  BY <1>2, <1>3, <1>4 DEF StatusAt
<1>7. Reason(p) => Reason(p)'
  BY <1>2, <1>3, Zenon DEF Reason, Inside
<1> QED
  BY <1>3, <1>4, <1>5, <1>6, <1>7, OneRun, Zenon

\* A run that ends with a failure accounts for whatever it leaves behind.
LEMMA FailedExit ==
  ASSUME Inv, NEW p \in Runs, NEW code \in Int, code # 0, Exit(p, code),
         code = Signalled \/ failed'[p] = TRUE,
         failed' \in [Runs -> BOOLEAN], short' \in [Runs -> BOOLEAN],
         \A q \in Runs \ {p} : failed'[q] = failed[q] /\ short'[q] = short[q],
         open' \in BOOLEAN, UNCHANGED <<cmd, did, more>>
  PROVE  Inv'
<1>1. Shape
  BY Zenon DEF Inv
<1>2. Shape' /\ Frame(p) /\ at'[p] = "exit" /\ rc'[p] = code
  BY <1>1 DEF Shape, Frame, Stages, Exit
<1>3. CommandAt(p)' /\ Reason(p)'
  BY <1>2, Zenon DEF CommandAt, Reason
<1>4. StatusAt(p)'
  BY <1>2, Zenon DEF StatusAt, Told
<1> QED
  BY <1>2, <1>3, <1>4, OneRun, Zenon

\* Updating one run of a Boolean function.
LEMMA BooleanUpdate ==
  ASSUME NEW f \in [Runs -> BOOLEAN], NEW p \in Runs, NEW b \in BOOLEAN,
         NEW g, g = [f EXCEPT ![p] = b]
  PROVE  /\ g \in [Runs -> BOOLEAN]
         /\ g[p] = b
         /\ \A q \in Runs \ {p} : g[q] = f[q]
  BY Zenon

\* A refused command line, and a run that is killed.
LEMMA RefuseInv == ASSUME Inv, NEW p \in Runs, Refuse(p) PROVE Inv'
<1>1. Shape /\ TRUE \in BOOLEAN
  BY Zenon DEF Inv
<1>2. -1 \in Int /\ -1 # 0
  OBVIOUS
<1>3. failed' \in [Runs -> BOOLEAN] /\ failed'[p] = TRUE
      /\ \A q \in Runs \ {p} : failed'[q] = failed[q]
  <2>1. failed \in [Runs -> BOOLEAN] /\ TRUE \in BOOLEAN
        /\ failed' = [failed EXCEPT ![p] = TRUE]
    BY <1>1, Zenon DEF Shape, Refuse
  <2> QED
    BY <2>1, BooleanUpdate, ZenonT(40)
<1>4. Exit(p, -1) /\ UNCHANGED <<cmd, did, more>> /\ open' = open /\ short' = short
  BY Zenon DEF Refuse, Exit
<1>5. open' \in BOOLEAN /\ short' \in [Runs -> BOOLEAN]
  BY <1>1, <1>4, Zenon DEF Shape
<1> QED
  BY <1>2, <1>3, <1>4, <1>5, FailedExit, Zenon

\* Killed between two commands.
LEMMA KillInv == ASSUME Inv, NEW p \in Runs, Kill(p) PROVE Inv'
<1>1. Shape
  BY Zenon DEF Inv
<1>2. Signalled \in Int /\ Signalled # 0
  BY DEF Signalled
<1>3. Exit(p, Signalled) /\ UNCHANGED <<cmd, open, did, more, failed, short>>
  BY Zenon DEF Kill
<1>4. /\ open' \in BOOLEAN
      /\ failed' \in [Runs -> BOOLEAN] /\ short' \in [Runs -> BOOLEAN]
  BY <1>1, <1>3, Zenon DEF Shape
<1> QED
  BY <1>2, <1>3, <1>4, FailedExit, Zenon

\* The run that ends by a signal before it has sent anything.
LEMMA CrashInv == ASSUME Inv, NEW p \in Runs, Crash(p) PROVE Inv'
<1>1. Shape
  BY Zenon DEF Inv
<1>2. Signalled \in Int /\ Signalled # 0
  BY DEF Signalled
<1>3. Exit(p, Signalled) /\ UNCHANGED <<cmd, open, did, more, failed, short>>
  BY Zenon DEF Crash, Exit
<1>4. /\ open' \in BOOLEAN
      /\ failed' \in [Runs -> BOOLEAN] /\ short' \in [Runs -> BOOLEAN]
  BY <1>1, <1>3, Zenon DEF Shape
<1> QED
  BY <1>2, <1>3, <1>4, FailedExit, Zenon

\* The command that looks up a size.
LEMMA LookupInv == ASSUME Inv, NEW p \in Runs, Lookup(p) PROVE Inv'
<1>1. Shape /\ at[p] = "lookup" /\ StatusAt(p) /\ CommandAt(p)
  BY Zenon DEF Inv, Lookup
<1>2. {SUCCESS} \in SUBSET {SUCCESS, BACKGROUND} /\ TRUE \in BOOLEAN
  OBVIOUS
<1>3. PICK o \in Outcomes(cmd[p], {SUCCESS}, TRUE), found \in BOOLEAN :
        IF o.rc = 0 /\ found
        THEN /\ at' = [at EXCEPT ![p] = IF looks[p] > 1 THEN "lookup"
                                        ELSE FirstStage(cmd[p])]
             /\ UNCHANGED <<rc, failed>>
        ELSE /\ Exit(p, IF cmd[p].via # "tunnel" \/ o.rc = 0 THEN -1 ELSE o.rc)
             /\ failed' = [failed EXCEPT ![p] = TRUE]
  BY Zenon DEF Lookup
<1>4. UNCHANGED <<cmd, open, did, more, short>>
  BY Zenon DEF Lookup
<1>5. o.rc \in Int
  BY <1>2, OutcomeShape, Zenon
<1>6. CASE o.rc = 0 /\ found
  <2>1. /\ at' = [at EXCEPT ![p] = IF looks[p] > 1 THEN "lookup"
                                   ELSE FirstStage(cmd[p])]
        /\ UNCHANGED <<rc, failed>>
    BY <1>3, <1>6, Zenon
  <2>2. Shape' /\ Frame(p) /\ at'[p] \in {"lookup", "unlock", "work"}
    BY <1>1, <1>4, <2>1 DEF Shape, Frame, Stages, FirstStage
  <2>3. CommandAt(p)'
    <3>1. at'[p] = "unlock" => cmd[p].locked
      BY <1>1, <2>1 DEF Shape, FirstStage
    <3> QED
      BY <1>1, <1>4, <2>2, <3>1, Zenon DEF CommandAt
  <2>4. StatusAt(p)'
    BY <1>1, <2>1, <2>2 DEF StatusAt
  <2>5. Reason(p) => Reason(p)'
    BY <1>1, <1>4, Zenon DEF Reason, Inside
  <2> QED
    BY <1>4, <2>2, <2>3, <2>4, <2>5, OneRun, Zenon
<1>7. CASE ~(o.rc = 0 /\ found)
  <2> DEFINE code == IF cmd[p].via # "tunnel" \/ o.rc = 0 THEN -1 ELSE o.rc
  <2>1. Exit(p, code) /\ failed' = [failed EXCEPT ![p] = TRUE]
    BY <1>3, <1>7, Zenon
  <2>2. code \in Int /\ code # 0
    BY <1>5
  <2>3. failed' \in [Runs -> BOOLEAN] /\ failed'[p] = TRUE
        /\ \A q \in Runs \ {p} : failed'[q] = failed[q]
    <3>1. failed \in [Runs -> BOOLEAN] /\ TRUE \in BOOLEAN
          /\ failed' = [failed EXCEPT ![p] = TRUE]
      BY <1>1, <2>1, Zenon DEF Shape
    <3> QED
      BY <3>1, BooleanUpdate, ZenonT(40)
  <2>4. open' \in BOOLEAN /\ short' \in [Runs -> BOOLEAN] /\ short' = short
    BY <1>1, <1>4, Zenon DEF Shape
  <2> QED
    BY <1>4, <2>1, <2>2, <2>3, <2>4, FailedExit, Zenon
<1> QED
  BY <1>6, <1>7, Zenon

\* The unlock: a failure may leave the mailbox open, and shows in the status.
LEMMA UnlockInv == ASSUME Inv, NEW p \in Runs, Unlock(p) PROVE Inv'
<1>1. Shape /\ at[p] = "unlock" /\ StatusAt(p) /\ CommandAt(p)
  BY Zenon DEF Inv, Unlock
<1>2. {SUCCESS} \in SUBSET {SUCCESS, BACKGROUND} /\ TRUE \in BOOLEAN
  OBVIOUS
<1>3. PICK o \in Outcomes(cmd[p], {SUCCESS}, TRUE) :
        /\ open' = (open \/ o.ran)
        /\ short' = [short EXCEPT ![p] = short[p] \/ o.short]
        /\ IF o.rc = 0
           THEN at' = [at EXCEPT ![p] = "work"] /\ UNCHANGED <<rc, failed>>
           ELSE Exit(p, o.rc) /\ failed' = [failed EXCEPT ![p] = TRUE]
  BY Zenon DEF Unlock
<1>4. UNCHANGED <<cmd, did, more>>
  BY Zenon DEF Unlock
<1>5. o.rc \in Int /\ o.ran \in BOOLEAN /\ o.short \in BOOLEAN
  BY <1>2, OutcomeShape, Zenon
<1>6. failed \in [Runs -> BOOLEAN] /\ short \in [Runs -> BOOLEAN] /\ open \in BOOLEAN
      /\ (short[p] \/ o.short) \in BOOLEAN
  BY <1>1, <1>5, Zenon DEF Shape
<1>7. /\ short' \in [Runs -> BOOLEAN] /\ short'[p] = (short[p] \/ o.short)
      /\ \A q \in Runs \ {p} : short'[q] = short[q]
  <2>1. short \in [Runs -> BOOLEAN] /\ (short[p] \/ o.short) \in BOOLEAN
        /\ short' = [short EXCEPT ![p] = short[p] \/ o.short]
    BY <1>3, <1>6, Zenon
  <2> QED
    BY <2>1, BooleanUpdate, ZenonT(40)
<1>8. open' \in BOOLEAN
  BY <1>3, <1>5, <1>6, Zenon
<1>9. CASE o.rc = 0
  <2>1. at' = [at EXCEPT ![p] = "work"] /\ UNCHANGED <<rc, failed>>
    BY <1>3, <1>9, Zenon
  <2>2. at' \in [Runs -> Stages] /\ at'[p] = "work"
        /\ \A q \in Runs \ {p} : at'[q] = at[q]
    BY <1>1, <2>1 DEF Shape, Stages
  <2>3. Shape' /\ Frame(p)
    BY <1>1, <1>4, <1>7, <1>8, <2>1, <2>2, Zenon DEF Shape, Frame
  <2>4. CommandAt(p)'
    BY <1>1, <1>4, <2>2, Zenon DEF CommandAt
  <2>5. StatusAt(p)'
    BY <1>1, <2>1, <2>2 DEF StatusAt
  <2>6. Reason(p)'
    BY <1>1, <1>4, <2>2, Zenon DEF Reason, Inside, CommandAt
  <2> QED
    BY <2>3, <2>4, <2>5, <2>6, OneRun, Zenon
<1>10. CASE o.rc # 0
  <2>1. Exit(p, o.rc) /\ failed' = [failed EXCEPT ![p] = TRUE]
    BY <1>3, <1>10, Zenon
  <2>2. failed' \in [Runs -> BOOLEAN] /\ failed'[p] = TRUE
        /\ \A q \in Runs \ {p} : failed'[q] = failed[q]
    <3>1. failed \in [Runs -> BOOLEAN] /\ TRUE \in BOOLEAN
          /\ failed' = [failed EXCEPT ![p] = TRUE]
      BY <1>6, <2>1, Zenon
    <3> QED
      BY <3>1, BooleanUpdate, ZenonT(40)
  <2> QED
    BY <1>4, <1>5, <1>7, <1>8, <1>10, <2>1, <2>2, FailedExit, Zenon
<1> QED
  BY <1>9, <1>10, Zenon

\* The work, page by page.
LEMMA WorkInv == ASSUME Inv, NEW p \in Runs, Work(p) PROVE Inv'
<1>1. Shape /\ at[p] = "work" /\ StatusAt(p) /\ CommandAt(p)
  BY Zenon DEF Inv, Work
<1>2. cmd[p].accepts \in SUBSET {SUCCESS, BACKGROUND} /\ cmd[p].locked \in BOOLEAN
      /\ Allowed(cmd[p]) \in BOOLEAN
  BY <1>1, Zenon DEF CommandAt, Allowed
<1>3. PICK o \in Outcomes(cmd[p], cmd[p].accepts, Allowed(cmd[p])), m \in BOOLEAN :
        LET code == IF o.rc \in cmd[p].accepts THEN 0 ELSE o.rc IN
        /\ did' = [did EXCEPT ![p] = o.ran]
        /\ more' = [more EXCEPT ![p] = m]
        /\ short' = [short EXCEPT ![p] = short[p] \/ o.short]
        /\ \/ UNCHANGED <<at, rc, failed>>
           \/ /\ Finish(p, page_rc(cmd[p], code, m))
              /\ failed' = [failed EXCEPT ![p] = code # 0 \/ (m /\ cmd[p].pages # 0)]
  BY ZenonT(40) DEF Work
<1> DEFINE code == IF o.rc \in cmd[p].accepts THEN 0 ELSE o.rc
<1>4. UNCHANGED <<cmd, open>>
  BY Zenon DEF Work
<1>5. /\ o.rc \in Int /\ o.rc # Signalled /\ o.ran \in BOOLEAN /\ o.short \in BOOLEAN
      /\ o.rc \in {0, 1} => o.ran \/ o.short
  BY <1>2, OutcomeShape, ZenonT(40)
<1>6. code \in Int /\ code # Signalled /\ (code = 0 => o.rc \in {0, 1})
  BY <1>2, <1>5 DEF SUCCESS, BACKGROUND, Signalled
<1>7. /\ did \in [Runs -> BOOLEAN] /\ more \in [Runs -> BOOLEAN]
      /\ failed \in [Runs -> BOOLEAN] /\ short \in [Runs -> BOOLEAN]
      /\ (short[p] \/ o.short) \in BOOLEAN /\ (code # 0 \/ (m /\ cmd[p].pages # 0)) \in BOOLEAN
  BY <1>1, <1>5, Zenon DEF Shape
<1>8. /\ did' \in [Runs -> BOOLEAN] /\ did'[p] = o.ran
      /\ \A q \in Runs \ {p} : did'[q] = did[q]
  <2>1. did \in [Runs -> BOOLEAN] /\ (o.ran) \in BOOLEAN
        /\ did' = [did EXCEPT ![p] = o.ran]
    BY <1>3, <1>5, <1>7, Zenon
  <2> QED
    BY <2>1, BooleanUpdate, ZenonT(40)
<1>9. /\ more' \in [Runs -> BOOLEAN] /\ more'[p] = m
      /\ \A q \in Runs \ {p} : more'[q] = more[q]
  <2>1. more \in [Runs -> BOOLEAN] /\ (m) \in BOOLEAN
        /\ more' = [more EXCEPT ![p] = m]
    BY <1>3, <1>7, Zenon
  <2> QED
    BY <2>1, BooleanUpdate, ZenonT(40)
<1>10. /\ short' \in [Runs -> BOOLEAN] /\ short'[p] = (short[p] \/ o.short)
       /\ \A q \in Runs \ {p} : short'[q] = short[q]
  <2>1. short \in [Runs -> BOOLEAN] /\ (short[p] \/ o.short) \in BOOLEAN
        /\ short' = [short EXCEPT ![p] = short[p] \/ o.short]
    BY <1>3, <1>7, Zenon
  <2> QED
    BY <2>1, BooleanUpdate, ZenonT(40)
<1>11. short[p] => short'[p]
  BY <1>10, Zenon
<1>12. CASE UNCHANGED <<at, rc, failed>>
  <2>1. Shape' /\ Frame(p)
    BY <1>1, <1>4, <1>8, <1>9, <1>10, <1>12, Zenon DEF Shape, Frame
  <2>2. CommandAt(p)' /\ StatusAt(p)'
    BY <1>1, <1>4, <1>12, Zenon DEF CommandAt, StatusAt
  <2>3. Reason(p) => Reason(p)'
    BY <1>4, <1>11, <1>12, Zenon DEF Reason, Inside
  <2> QED
    BY <1>4, <2>1, <2>2, <2>3, OneRun, Zenon
<1>13. CASE /\ Finish(p, page_rc(cmd[p], code, m))
            /\ failed' = [failed EXCEPT ![p] = code # 0 \/ (m /\ cmd[p].pages # 0)]
  <2>1. /\ failed' \in [Runs -> BOOLEAN] /\ failed'[p] = (code # 0 \/ (m /\ cmd[p].pages # 0))
        /\ \A q \in Runs \ {p} : failed'[q] = failed[q]
    <3>1. failed \in [Runs -> BOOLEAN] /\ (code # 0 \/ (m /\ cmd[p].pages # 0)) \in BOOLEAN
          /\ failed' = [failed EXCEPT ![p] = code # 0 \/ (m /\ cmd[p].pages # 0)]
      BY <1>7, <1>13, Zenon
    <3> QED
      BY <3>1, BooleanUpdate, ZenonT(40)
  <2>2. page_rc(cmd[p], code, m) \in Int /\ page_rc(cmd[p], code, m) # Signalled
        /\ (page_rc(cmd[p], code, m) = 0 <=> code = 0 /\ ~(m /\ cmd[p].pages # 0))
    BY <1>6 DEF page_rc, Signalled
  <2>3. /\ at' = [at EXCEPT ![p] = IF cmd[p].locked THEN "lock" ELSE "exit"]
        /\ rc' = [rc EXCEPT ![p] = page_rc(cmd[p], code, m)]
    BY <1>13, Zenon DEF Finish, Exit
  <2> HIDE DEF code
  <2>4. /\ at' \in [Runs -> Stages] /\ rc' \in [Runs -> Int]
        /\ at'[p] = (IF cmd[p].locked THEN "lock" ELSE "exit")
        /\ rc'[p] = page_rc(cmd[p], code, m)
        /\ \A q \in Runs \ {p} : at'[q] = at[q] /\ rc'[q] = rc[q]
    BY <1>1, <2>2, <2>3 DEF Shape, Stages
  <2>5. Shape' /\ Frame(p)
    BY <1>1, <1>4, <1>8, <1>9, <1>10, <2>1, <2>4, Zenon DEF Shape, Frame
  <2>6. CommandAt(p)'
    BY <1>1, <1>4, <2>4, Zenon DEF CommandAt
  <2>7. Told(p)'
    <3>1. rc'[p] = 0 <=> ~failed'[p]
      BY <2>1, <2>2, <2>4, Zenon
    <3>2. rc'[p] = 0 => code = 0 /\ (m => cmd'[p].pages = 0)
      BY <1>4, <2>2, <2>4, Zenon
    <3>3. code = 0 => did'[p] \/ short'[p]
      BY <1>5, <1>6, <1>8, <1>10, Zenon
    <3> QED
      BY <1>9, <3>1, <3>2, <3>3, Zenon DEF Told
  <2>8. StatusAt(p)'
    BY <2>2, <2>4, <2>7, Zenon DEF StatusAt
  <2>9. Reason(p) => Reason(p)'
    BY <1>1, <1>4, <1>11, <2>4, Zenon DEF Reason, Inside
  <2> QED
    BY <1>4, <2>5, <2>6, <2>8, <2>9, OneRun, Zenon
<1> QED
  BY <1>3, <1>12, <1>13, Zenon

\* The lock: when it does not reach the device, the status or a short answer of
\* the tunnel says so.
LEMMA LockInv == ASSUME Inv, NEW p \in Runs, Lock(p) PROVE Inv'
<1>1. Shape /\ at[p] = "lock" /\ StatusAt(p) /\ CommandAt(p)
  BY Zenon DEF Inv, Lock
<1>2. {SUCCESS} \in SUBSET {SUCCESS, BACKGROUND} /\ TRUE \in BOOLEAN
  OBVIOUS
<1>3. PICK o \in Outcomes(cmd[p], {SUCCESS}, TRUE) :
        /\ open' = (open /\ ~o.ran)
        /\ short' = [short EXCEPT ![p] = short[p] \/ o.short]
        /\ failed' = [failed EXCEPT ![p] = failed[p] \/ o.rc # 0]
        /\ Exit(p, lock_rc(rc[p], o.rc))
  BY Zenon DEF Lock
<1>4. UNCHANGED <<cmd, did, more>>
  BY Zenon DEF Lock
<1>5. /\ o.rc \in Int /\ o.rc # Signalled /\ o.ran \in BOOLEAN /\ o.short \in BOOLEAN
      /\ o.rc \in {0, 1} => o.ran \/ o.short
  BY <1>2, OutcomeShape, Zenon
<1>6. /\ failed \in [Runs -> BOOLEAN] /\ short \in [Runs -> BOOLEAN] /\ open \in BOOLEAN
      /\ (short[p] \/ o.short) \in BOOLEAN /\ (failed[p] \/ o.rc # 0) \in BOOLEAN
  BY <1>1, <1>5, Zenon DEF Shape
<1>7. /\ short' \in [Runs -> BOOLEAN] /\ short'[p] = (short[p] \/ o.short)
      /\ \A q \in Runs \ {p} : short'[q] = short[q]
  <2>1. short \in [Runs -> BOOLEAN] /\ (short[p] \/ o.short) \in BOOLEAN
        /\ short' = [short EXCEPT ![p] = short[p] \/ o.short]
    BY <1>3, <1>6, Zenon
  <2> QED
    BY <2>1, BooleanUpdate, ZenonT(40)
<1>8. /\ failed' \in [Runs -> BOOLEAN] /\ failed'[p] = (failed[p] \/ o.rc # 0)
      /\ \A q \in Runs \ {p} : failed'[q] = failed[q]
  <2>1. failed \in [Runs -> BOOLEAN] /\ (failed[p] \/ o.rc # 0) \in BOOLEAN
        /\ failed' = [failed EXCEPT ![p] = failed[p] \/ o.rc # 0]
    BY <1>3, <1>6, Zenon
  <2> QED
    BY <2>1, BooleanUpdate, ZenonT(40)
<1>9. Told(p) /\ rc[p] \in Int /\ rc[p] # Signalled
  BY <1>1, Zenon DEF StatusAt, Shape
<1>10. /\ lock_rc(rc[p], o.rc) \in Int /\ lock_rc(rc[p], o.rc) # Signalled
       /\ lock_rc(rc[p], o.rc) = 0 <=> rc[p] = 0 /\ o.rc = 0
  BY <1>5, <1>9 DEF lock_rc
<1>11. /\ at' \in [Runs -> Stages] /\ rc' \in [Runs -> Int]
       /\ at'[p] = "exit" /\ rc'[p] = lock_rc(rc[p], o.rc)
       /\ \A q \in Runs \ {p} : at'[q] = at[q] /\ rc'[q] = rc[q]
  BY <1>1, <1>3, <1>10 DEF Shape, Stages, Exit
<1>12. open' \in BOOLEAN
  BY <1>3, <1>5, <1>6, Zenon
<1>13. Shape' /\ Frame(p)
  BY <1>1, <1>4, <1>7, <1>8, <1>11, <1>12, Zenon DEF Shape, Frame
<1>14. CommandAt(p)'
  BY <1>11, Zenon DEF CommandAt
<1>15. StatusAt(p)'
  <2>1. Told(p)'
    BY <1>4, <1>7, <1>8, <1>9, <1>10, <1>11, Zenon DEF Told
  <2> QED
    BY <1>11, <2>1, Zenon DEF StatusAt
<1>16. open' => Reason(p)'
  <2>1. open' => o.rc # 0 \/ o.short
    <3>1. o.rc = 0 => o.rc \in {0, 1}
      OBVIOUS
    <3> QED
      BY <1>3, <1>5, <3>1, Zenon
  <2> QED
    BY <1>7, <1>10, <1>11, <2>1, Zenon DEF Reason
<1> QED
  BY <1>13, <1>14, <1>15, <1>16, OneRun, Zenon

-----------------------------------------------------------------------------

\* The invariant holds at first.
LEMMA InitInv == Init => Inv
<1> SUFFICES ASSUME Init PROVE Inv
  OBVIOUS
<1>1. Shape
  <2>1. at \in [Runs -> Stages] /\ cmd = [p \in Runs |-> cmd[p]] /\ rc \in [Runs -> Int]
    BY DEF Init, Stages
  <2>2. /\ open \in BOOLEAN
        /\ did \in [Runs -> BOOLEAN] /\ more \in [Runs -> BOOLEAN]
        /\ failed \in [Runs -> BOOLEAN] /\ short \in [Runs -> BOOLEAN]
    BY Zenon DEF Init
  <2> QED
    BY <2>1, <2>2, Zenon DEF Shape
<1>2. \A p \in Runs : at[p] = "idle" /\ failed[p] = FALSE
  BY Zenon DEF Init
<1>3. \A p \in Runs : CommandAt(p) /\ StatusAt(p)
  BY <1>2, Zenon DEF CommandAt, StatusAt
<1> QED
  BY <1>1, <1>3, Zenon DEF Inv, Init

\* Every step preserves the invariant.
LEMMA StepInv == Inv /\ [Next]_vars => Inv'
<1> SUFFICES ASSUME Inv, [Next]_vars PROVE Inv'
  OBVIOUS
<1>1. ASSUME NEW p \in Runs, Begin(p) PROVE Inv'
  <2>1. ASSUME NEW c \in Offered[p], NEW k \in 0 .. c.lookups, Start(p, c, k)
        PROVE  Inv'
    BY <2>1, StartInv, Zenon
  <2> QED
    BY <1>1, <2>1, RefuseInv, CrashInv, Zenon DEF Begin
<1>2. ASSUME NEW p \in Runs, Step(p) PROVE Inv'
  BY <1>2, LookupInv, UnlockInv, WorkInv, LockInv, Zenon DEF Step
<1>3. CASE UNCHANGED vars
  <2>1. UNCHANGED <<at, cmd, rc, open, did, more, failed, short>>
    BY <1>3, Zenon DEF vars
  <2> QED
    BY <2>1, Zenon DEF Inv, Shape, CommandAt, StatusAt, Told, Reason, Inside
<1> QED
  BY <1>1, <1>2, <1>3, KillInv, Zenon DEF Next, Done

\* The invariant holds always.
LEMMA Invariant == Spec => []Inv
  BY InitInv, StepInv, PTL DEF Spec

\* For any number of runs at once, killed at any moment, an open vendor mailbox
\* is accounted for: a run is at work on it, has failed, or took a short answer
\* of the tunnel for a success (vu_mb_unlock, vu_mb_lock and their callers).
THEOREM MailboxAccountedFor == Spec => []LeftOpenReported
<1>1. Inv => LeftOpenReported
  BY Zenon DEF Inv, Reason, LeftOpenReported
<1> QED
  BY <1>1, Invariant, PTL

\* Exit status 0 of any run means that the work was done and no step failed.
THEOREM StatusMeaning == Spec => []SuccessMeansDone
<1>1. Inv => SuccessMeansDone
  BY Zenon DEF Inv, StatusAt, Told, SuccessMeansDone
<1> QED
  BY <1>1, Invariant, PTL

-----------------------------------------------------------------------------
(* The sizes of the subcommands *)

\* Sizes, counts and opcodes are numbers.
Numbers(c) ==
  /\ c.op \in Nat /\ c.req \in Nat /\ c.rsp \in Nat
  /\ c.pages \in Nat /\ c.lookups \in Nat

\* A subcommand that does not use the tunnel.
Plain(c) == c.via # "tunnel" /\ Numbers(c)

\* command_size holds the size of the message.
Fits(c) == 12 + c.req < 65536

\* What a tunnelled subcommand has in common with the wrapper w of the library,
\* when the option parser lets it pass.
Inner(c, w) ==
  /\ c.via = "tunnel" /\ Numbers(c)
  /\ c.ok = FALSE \/ (Fits(c) /\ c.op = w.op /\ c.req = w.req /\ c.rsp = w.max)

\* What is sent and made room for without the tunnel, with the argument n.
Known(n) ==
  {Sizes(w, w.max) : w \in Library(n)} \cup {Sizes(d, d.rsp) : d \in DirectCommands(n)}

\* What there is to know of a tunnelled subcommand.
Tunnelled(n, c) ==
  /\ c.via = "tunnel" /\ Numbers(c)
  /\ c.ok = FALSE \/ (Fits(c) /\ (c.op \in Differs \/ Sizes(c, c.rsp) \in Known(n)))

\* The direct subcommands.
LEMMA DirectPlain == ASSUME NEW n \in Nat PROVE \A c \in DirectCommands(n) : Plain(c)
<1>1. /\ Plain(tool_identify_memdev) /\ Plain(tool_get_partition)
      /\ Plain(tool_set_partition) /\ Plain(tool_get_fw_info)
      /\ Plain(tool_activate_fw) /\ Plain(tool_get_health_info)
      /\ Plain(tool_get_alert_config) /\ Plain(tool_set_alert_config)
      /\ Plain(tool_get_poison_list) /\ Plain(tool_inject_poison)
  BY IterationsAssumption, SMT DEF Plain, Numbers, tool_identify_memdev,
     tool_get_partition, tool_set_partition, tool_get_fw_info,
     tool_activate_fw, tool_get_health_info, tool_get_alert_config,
     tool_set_alert_config, tool_get_poison_list, tool_inject_poison, Direct,
     Subcommand, cmd_memdev_identify, Fixed, Reply, Unlimited,
     cmd_memdev_get_partition_info, cmd_memdev_set_partition_info, Ack,
     cmd_get_fw_info, InBackground, cmd_activate_fw,
     cmd_memdev_get_health_info, cmd_memdev_get_alert_config,
     cmd_memdev_set_alert_config, Pages, cmd_get_poison_list, UpTo, List,
     MAX_POISON_RECORDS, CXL_MAILBOX_MAX_PAYLOAD_SIZE, cmd_memdev_inject_poison
<1>2. /\ Plain(tool_clear_poison) /\ Plain(tool_get_scan_media_cap)
      /\ Plain(tool_scan_media) /\ Plain(tool_get_scan_media_results)
      /\ Plain(tool_media_operation_discovery(n))
      /\ Plain(tool_media_operation_sanitize(n)) /\ Plain(tool_pm_ppr)
      /\ Plain(tool_pm_mbist(n)) /\ Plain(tool_get_dc_config)
      /\ Plain(tool_get_dc_extent_list(n))
  BY IterationsAssumption, SMTT(20) DEF Plain, Numbers, tool_clear_poison,
     tool_get_scan_media_cap, tool_scan_media, tool_get_scan_media_results,
     tool_media_operation_discovery, tool_media_operation_sanitize,
     tool_pm_ppr, tool_pm_mbist, tool_get_dc_config, tool_get_dc_extent_list,
     Direct, Subcommand, cmd_memdev_clear_poison, Ack, Fixed, Reply, Unlimited,
     cmd_memdev_get_scan_media_capabilities, InBackground,
     cmd_memdev_scan_media, Pages, cmd_memdev_get_scan_media_results, UpTo,
     List, MAX_SCAN_MEDIA_RECORDS, CXL_MAILBOX_MAX_PAYLOAD_SIZE, If,
     cmd_memdev_media_operations_discovery, MAX_MEDIA_OPS_SUPPORTED, AtMost,
     cmd_memdev_media_operations_sanitize, MAX_MEDIA_OPS_DPA_RANGES,
     cmd_perform_maintenance, cmd_memdev_get_dc_config,
     cmd_memdev_get_dc_extent_list
<1>3. /\ Plain(tool_add_dc_response(n)) /\ Plain(tool_release_dc(n))
      /\ Plain(tool_get_sld_qos_ctrl) /\ Plain(tool_set_sld_qos_ctrl)
      /\ Plain(tool_get_sld_qos_status) /\ Plain(tool_get_event_records)
      /\ Plain(tool_clear_event_records(n))
      /\ Plain(tool_get_event_interrupt_policy)
      /\ Plain(tool_set_event_interrupt_policy)
      /\ Plain(tool_get_supported_logs)
  BY SMT DEF Plain, Numbers, tool_add_dc_response, tool_release_dc,
     tool_get_sld_qos_ctrl, tool_set_sld_qos_ctrl, tool_get_sld_qos_status,
     tool_get_event_records, tool_clear_event_records,
     tool_get_event_interrupt_policy, tool_set_event_interrupt_policy,
     tool_get_supported_logs, If, Direct, Subcommand,
     cmd_memdev_add_dc_response, Ack, Fixed, Reply, Unlimited,
     cmd_memdev_release_dc, cmd_memdev_get_sld_qos_control,
     cmd_memdev_set_sld_qos_control, cmd_memdev_get_sld_qos_status, Pages,
     cmd_get_event_records, UpTo, List, CXLMI_MAX_SUPPORTED_EVENT_RECORDS,
     cmd_clear_event_records, u8, cmd_get_event_interrupt_policy,
     cmd_set_event_interrupt_policy, cmd_get_supported_logs,
     CXLMI_MAX_SUPPORTED_LOGS
<1>4. /\ Plain(tool_get_log(n)) /\ Plain(tool_get_log_cap)
      /\ Plain(tool_clear_log) /\ Plain(tool_populate_log)
      /\ Plain(tool_get_supported_feat(n)) /\ Plain(tool_get_feature(n))
      /\ Plain(tool_set_feature(n)) /\ Plain(tool_get_timestamp)
      /\ Plain(tool_set_timestamp) /\ Plain(tool_vu_evtadd)
  BY SMT DEF Plain, Numbers, tool_get_log, tool_get_log_cap, tool_clear_log,
     tool_populate_log, tool_get_supported_feat, tool_get_feature,
     tool_set_feature, tool_get_timestamp, tool_set_timestamp, tool_vu_evtadd,
     LooksUp, Direct, Subcommand, cmd_get_log, Fixed, Reply,
     cmd_get_log_capabilities, cmd_clear_log, Ack, cmd_populate_log,
     cmd_get_supported_features, If, cmd_get_feature, FEATURE_DATA,
     cmd_set_feature, CXL_MAILBOX_MAX_PAYLOAD_SIZE, cmd_get_timestamp,
     cmd_set_timestamp, Vu, Locked, cmd_vendor_specific, OPCODE_VU, VU_BYTES
<1>5. /\ Plain(tool_vu_eccrmwinj) /\ Plain(tool_vu_ddrdparw)
      /\ Plain(tool_vu_ddrdbt) /\ Plain(tool_vu_dimminfo)
      /\ Plain(tool_vu_getdevcfg) /\ Plain(tool_vu_ddrfreq)
      /\ Plain(tool_vu_pciespeed) /\ Plain(tool_vu_dlpt)
  BY SMT DEF Plain, Numbers, tool_vu_eccrmwinj, tool_vu_ddrdparw,
     tool_vu_ddrdbt, tool_vu_dimminfo, tool_vu_getdevcfg, tool_vu_ddrfreq,
     tool_vu_pciespeed, tool_vu_dlpt, Vu, Locked, Direct, Subcommand,
     cmd_vendor_specific, Fixed, Reply, Unlimited, OPCODE_VU, VU_BYTES, Pages
<1> QED
  BY <1>1, <1>2, <1>3, <1>4, <1>5, Zenon DEF DirectCommands

\* The subcommands of mctp-cci.
LEMMA CciPlain == ASSUME NEW n \in Nat PROVE \A c \in CciCommands(n) : Plain(c)
<1>1. /\ Plain(do_identify) /\ Plain(do_bg_op_status)
      /\ Plain(do_get_resp_limit) /\ Plain(do_abort)
      /\ Plain(do_get_events) /\ Plain(do_clear_events)
      /\ Plain(do_get_intr_policy) /\ Plain(do_set_intr_policy)
      /\ Plain(do_get_fw_info) /\ Plain(do_transfer_fw(n))
  BY SMT DEF Plain, Numbers, do_identify, do_bg_op_status, do_get_resp_limit,
     do_abort, do_get_events, do_clear_events, do_get_intr_policy,
     do_set_intr_policy, do_get_fw_info, do_transfer_fw, Cci, Direct,
     Subcommand, cmd_identify, Fixed, Reply, Unlimited, cmd_bg_op_status,
     cmd_get_response_msg_limit, cmd_request_bg_op_abort, Ack, Pages,
     cmd_get_event_records, UpTo, List, CXLMI_MAX_SUPPORTED_EVENT_RECORDS,
     cmd_clear_event_records, u8, cmd_get_event_interrupt_policy,
     cmd_set_event_interrupt_policy, cmd_get_fw_info, cmd_transfer_fw
<1>2. /\ Plain(do_activate_fw) /\ Plain(do_get_ts) /\ Plain(do_set_ts)
      /\ Plain(do_get_supported_logs) /\ Plain(do_get_log(n))
      /\ Plain(do_clear_log) /\ Plain(do_get_supported_features(n))
      /\ Plain(do_get_feature) /\ Plain(do_memdev_identify)
      /\ Plain(do_get_partition)
  BY SMT DEF Plain, Numbers, do_activate_fw, do_get_ts, do_set_ts,
     do_get_supported_logs, do_get_log, do_clear_log,
     do_get_supported_features, do_get_feature, do_memdev_identify,
     do_get_partition, Cci, Direct, Subcommand, cmd_activate_fw, Ack, Fixed,
     Reply, cmd_get_timestamp, cmd_set_timestamp, cmd_get_supported_logs, UpTo,
     List, CXLMI_MAX_SUPPORTED_LOGS, LooksUp, cmd_get_log, cmd_clear_log, If,
     cmd_get_supported_features, cmd_get_feature, FEATURE_DATA,
     cmd_memdev_identify, cmd_memdev_get_partition_info
<1>3. /\ Plain(do_set_partition) /\ Plain(do_get_health)
      /\ Plain(do_get_alert) /\ Plain(do_set_alert)
      /\ Plain(do_get_poison_list) /\ Plain(do_inject_poison)
      /\ Plain(do_clear_poison) /\ Plain(do_sanitize)
      /\ Plain(do_secure_erase) /\ Plain(do_get_state)
  BY SMT DEF Plain, Numbers, do_set_partition, do_get_health, do_get_alert,
     do_set_alert, do_get_poison_list, do_inject_poison, do_clear_poison,
     do_sanitize, do_secure_erase, do_get_state, Cci, Direct, Subcommand,
     cmd_memdev_set_partition_info, Ack, Fixed, Reply, Unlimited,
     cmd_memdev_get_health_info, cmd_memdev_get_alert_config,
     cmd_memdev_set_alert_config, Pages, cmd_get_poison_list, UpTo, List,
     MAX_POISON_RECORDS, CXL_MAILBOX_MAX_PAYLOAD_SIZE,
     cmd_memdev_inject_poison, cmd_memdev_clear_poison, cmd_memdev_sanitize,
     cmd_memdev_secure_erase, cmd_memdev_get_security_state
<1>4. /\ Plain(do_set_passphrase) /\ Plain(do_unlock)
      /\ Plain(do_freeze) /\ Plain(do_get_ctrl) /\ Plain(do_set_ctrl)
      /\ Plain(do_get_status) /\ Plain(do_identify_sw)
      /\ Plain(do_phys_port_state) /\ Plain(do_vcs_info)
      /\ Plain(do_get_ld_info)
  BY SMT DEF Plain, Numbers, do_set_passphrase, do_unlock, do_freeze,
     do_get_ctrl, do_set_ctrl, do_get_status, do_identify_sw,
     do_phys_port_state, do_vcs_info, do_get_ld_info, Cci, Direct, Subcommand,
     cmd_memdev_set_passphrase, Ack, Fixed, Reply, cmd_memdev_unlock,
     cmd_memdev_freeze_security_state, cmd_memdev_get_sld_qos_control,
     cmd_memdev_set_sld_qos_control, cmd_memdev_get_sld_qos_status,
     cmd_fmapi_identify_sw_device, cmd_fmapi_get_phys_port_state, Exactly,
     List, u8, cmd_fmapi_get_vcs_info, cmd_fmapi_get_ld_info
<1>5. /\ Plain(do_get_ld_alloc) /\ Plain(do_get_multiheaded)
      /\ Plain(do_get_dcd_info) /\ Plain(do_vu_inject_event)
  BY SMT DEF Plain, Numbers, do_get_ld_alloc, do_get_multiheaded,
     do_get_dcd_info, do_vu_inject_event, Cci, Direct, Subcommand,
     cmd_fmapi_get_ld_allocations, Exactly, List, Reply, u8,
     cmd_fmapi_get_multiheaded_info, cmd_fmapi_get_dcd_info, Fixed, Locked,
     cmd_vendor_specific, OPCODE_VU, VU_BYTES
<1> QED
  BY <1>1, <1>2, <1>3, <1>4, <1>5, Zenon DEF CciCommands

\* The tunnelled subcommands: most of them have a wrapper in the library, and
\* those for maintenance and of the vendor a direct subcommand.
LEMMA TunnelSizes ==
  ASSUME NEW n \in Nat PROVE \A c \in TunnelCommands(n) : Tunnelled(n, c)
<1>1. \A c, w : w \in Library(n) /\ Inner(c, w) => Tunnelled(n, c)
  BY Zenon DEF Inner, Tunnelled, Known, Sizes
<1>2. /\ Tunnelled(n, sdb_tunnel_identify)
      /\ Tunnelled(n, sdb_tunnel_bg_op_status)
      /\ Tunnelled(n, sdb_tunnel_get_resp_msg_limit)
      /\ Tunnelled(n, sdb_tunnel_set_resp_msg_limit)
      /\ Tunnelled(n, sdb_tunnel_bg_op_abort)
      /\ Tunnelled(n, sdb_tunnel_get_fw_info)
      /\ Tunnelled(n, sdb_tunnel_activate_fw)
      /\ Tunnelled(n, sdb_tunnel_get_event_records)
      /\ Tunnelled(n, sdb_tunnel_clear_event_records(n))
      /\ Tunnelled(n, sdb_tunnel_get_mctp_evt_int_policy)
  <2>1. /\ Inner(sdb_tunnel_identify, cmd_identify)
        /\ Inner(sdb_tunnel_bg_op_status, cmd_bg_op_status)
        /\ Inner(sdb_tunnel_get_resp_msg_limit, cmd_get_response_msg_limit)
        /\ Inner(sdb_tunnel_set_resp_msg_limit, cmd_set_response_msg_limit)
        /\ Inner(sdb_tunnel_bg_op_abort, cmd_request_bg_op_abort)
        /\ Inner(sdb_tunnel_get_fw_info, cmd_get_fw_info)
        /\ Inner(sdb_tunnel_activate_fw, cmd_activate_fw)
        /\ Inner(sdb_tunnel_get_event_records, cmd_get_event_records)
        /\ Inner(sdb_tunnel_clear_event_records(n), cmd_clear_event_records(n))
        /\ Inner(sdb_tunnel_get_mctp_evt_int_policy,
                 cmd_get_mctp_event_interrupt_policy)
    BY SMT DEF Inner, Fits, Numbers, sdb_tunnel_identify, cmd_identify,
       sdb_tunnel_bg_op_status, cmd_bg_op_status,
       sdb_tunnel_get_resp_msg_limit, cmd_get_response_msg_limit,
       sdb_tunnel_set_resp_msg_limit, cmd_set_response_msg_limit,
       sdb_tunnel_bg_op_abort, cmd_request_bg_op_abort, sdb_tunnel_get_fw_info,
       cmd_get_fw_info, sdb_tunnel_activate_fw, cmd_activate_fw,
       sdb_tunnel_get_event_records, cmd_get_event_records,
       sdb_tunnel_clear_event_records, cmd_clear_event_records,
       sdb_tunnel_get_mctp_evt_int_policy, cmd_get_mctp_event_interrupt_policy,
       Tunnel, Subcommand, Fixed, Reply, Unlimited, Ack, InBackground, Pages,
       UpTo, List, CXLMI_MAX_SUPPORTED_EVENT_RECORDS, If, u8
  <2> QED
    BY <1>1, <2>1, Zenon DEF Library, Generic
<1>3. /\ Tunnelled(n, sdb_tunnel_get_timestamp)
      /\ Tunnelled(n, sdb_tunnel_set_timestamp)
      /\ Tunnelled(n, sdb_tunnel_get_supported_logs)
      /\ Tunnelled(n, sdb_tunnel_get_log(n))
      /\ Tunnelled(n, sdb_tunnel_get_log_cap)
      /\ Tunnelled(n, sdb_tunnel_clear_log)
      /\ Tunnelled(n, sdb_tunnel_populate_log)
      /\ Tunnelled(n, sdb_tunnel_get_supported_feat(n))
      /\ Tunnelled(n, sdb_tunnel_set_feature(n))
  <2>1. /\ Inner(sdb_tunnel_get_timestamp, cmd_get_timestamp)
        /\ Inner(sdb_tunnel_set_timestamp, cmd_set_timestamp)
        /\ Inner(sdb_tunnel_get_supported_logs, cmd_get_supported_logs)
        /\ Inner(sdb_tunnel_get_log(n), cmd_get_log(n))
        /\ Inner(sdb_tunnel_get_log_cap, cmd_get_log_capabilities)
        /\ Inner(sdb_tunnel_clear_log, cmd_clear_log)
        /\ Inner(sdb_tunnel_populate_log, cmd_populate_log)
        /\ Inner(sdb_tunnel_get_supported_feat(n),
                 cmd_get_supported_features(n))
        /\ Inner(sdb_tunnel_set_feature(n), cmd_set_feature(n))
    BY SMT DEF Inner, Fits, Numbers, sdb_tunnel_get_timestamp,
       cmd_get_timestamp, sdb_tunnel_set_timestamp, cmd_set_timestamp,
       sdb_tunnel_get_supported_logs, cmd_get_supported_logs,
       sdb_tunnel_get_log, cmd_get_log, sdb_tunnel_get_log_cap,
       cmd_get_log_capabilities, sdb_tunnel_clear_log, cmd_clear_log,
       sdb_tunnel_populate_log, cmd_populate_log,
       sdb_tunnel_get_supported_feat, cmd_get_supported_features,
       sdb_tunnel_set_feature, cmd_set_feature, Tunnel, Subcommand, Fixed,
       Reply, Ack, UpTo, List, CXLMI_MAX_SUPPORTED_LOGS, LooksUp, If,
       CXL_MAILBOX_MAX_PAYLOAD_SIZE
  <2> QED
    BY <1>1, <2>1, Zenon DEF Library, Generic
<1>4. /\ Tunnelled(n, sdb_tunnel_identify_memdev)
      /\ Tunnelled(n, sdb_tunnel_get_partition)
      /\ Tunnelled(n, sdb_tunnel_set_partition)
      /\ Tunnelled(n, sdb_tunnel_get_health_info)
      /\ Tunnelled(n, sdb_tunnel_get_alert_config)
      /\ Tunnelled(n, sdb_tunnel_set_alert_config)
      /\ Tunnelled(n, sdb_tunnel_get_poison_list)
      /\ Tunnelled(n, sdb_tunnel_inject_poison)
      /\ Tunnelled(n, sdb_tunnel_clear_poison)
      /\ Tunnelled(n, sdb_tunnel_get_scan_media_cap)
  <2>1. /\ Inner(sdb_tunnel_identify_memdev, cmd_memdev_identify)
        /\ Inner(sdb_tunnel_get_partition, cmd_memdev_get_partition_info)
        /\ Inner(sdb_tunnel_set_partition, cmd_memdev_set_partition_info)
        /\ Inner(sdb_tunnel_get_health_info, cmd_memdev_get_health_info)
        /\ Inner(sdb_tunnel_get_alert_config, cmd_memdev_get_alert_config)
        /\ Inner(sdb_tunnel_set_alert_config, cmd_memdev_set_alert_config)
        /\ Inner(sdb_tunnel_get_poison_list, cmd_get_poison_list)
        /\ Inner(sdb_tunnel_inject_poison, cmd_memdev_inject_poison)
        /\ Inner(sdb_tunnel_clear_poison, cmd_memdev_clear_poison)
        /\ Inner(sdb_tunnel_get_scan_media_cap,
                 cmd_memdev_get_scan_media_capabilities)
    BY IterationsAssumption, SMT DEF Inner, Fits, Numbers,
       sdb_tunnel_identify_memdev, cmd_memdev_identify,
       sdb_tunnel_get_partition, cmd_memdev_get_partition_info,
       sdb_tunnel_set_partition, cmd_memdev_set_partition_info,
       sdb_tunnel_get_health_info, cmd_memdev_get_health_info,
       sdb_tunnel_get_alert_config, cmd_memdev_get_alert_config,
       sdb_tunnel_set_alert_config, cmd_memdev_set_alert_config,
       sdb_tunnel_get_poison_list, cmd_get_poison_list,
       sdb_tunnel_inject_poison, cmd_memdev_inject_poison,
       sdb_tunnel_clear_poison, cmd_memdev_clear_poison,
       sdb_tunnel_get_scan_media_cap, cmd_memdev_get_scan_media_capabilities,
       Tunnel, Subcommand, Fixed, Reply, Unlimited, Ack, Measured, Pages,
       MAX_POISON_RECORDS, CXL_MAILBOX_MAX_PAYLOAD_SIZE, UpTo, List
  <2> QED
    BY <1>1, <2>1, Zenon DEF Library, Memdev
<1>5. /\ Tunnelled(n, sdb_tunnel_scan_media)
      /\ Tunnelled(n, sdb_tunnel_get_scan_media_results)
      /\ Tunnelled(n, sdb_tunnel_get_sld_qos_ctrl)
      /\ Tunnelled(n, sdb_tunnel_set_sld_qos_ctrl)
      /\ Tunnelled(n, sdb_tunnel_get_sld_qos_status)
  <2>1. /\ Inner(sdb_tunnel_scan_media, cmd_memdev_scan_media)
        /\ Inner(sdb_tunnel_get_scan_media_results,
                 cmd_memdev_get_scan_media_results)
        /\ Inner(sdb_tunnel_get_sld_qos_ctrl, cmd_memdev_get_sld_qos_control)
        /\ Inner(sdb_tunnel_set_sld_qos_ctrl, cmd_memdev_set_sld_qos_control)
        /\ Inner(sdb_tunnel_get_sld_qos_status, cmd_memdev_get_sld_qos_status)
    BY IterationsAssumption, SMT DEF Inner, Fits, Numbers,
       sdb_tunnel_scan_media, cmd_memdev_scan_media,
       sdb_tunnel_get_scan_media_results, cmd_memdev_get_scan_media_results,
       sdb_tunnel_get_sld_qos_ctrl, cmd_memdev_get_sld_qos_control,
       sdb_tunnel_set_sld_qos_ctrl, cmd_memdev_set_sld_qos_control,
       sdb_tunnel_get_sld_qos_status, cmd_memdev_get_sld_qos_status,
       InBackground, Tunnel, Subcommand, Ack, Fixed, Reply, Unlimited,
       Measured, Pages, MAX_SCAN_MEDIA_RECORDS, CXL_MAILBOX_MAX_PAYLOAD_SIZE,
       UpTo, List
  <2> QED
    BY <1>1, <2>1, Zenon DEF Library, Memdev
<1>6. /\ Tunnelled(n, sdb_tunnel_fm_get_ld_info)
      /\ Tunnelled(n, sdb_tunnel_fm_get_ld_alloc(n))
      /\ Tunnelled(n, sdb_tunnel_fm_set_ld_alloc(n))
      /\ Tunnelled(n, sdb_tunnel_fm_get_qos_ctrl)
      /\ Tunnelled(n, sdb_tunnel_fm_set_qos_ctrl)
      /\ Tunnelled(n, sdb_tunnel_fm_get_qos_status)
      /\ Tunnelled(n, sdb_tunnel_fm_get_qos_alloc_bw(n))
      /\ Tunnelled(n, sdb_tunnel_fm_set_qos_alloc_bw(n))
      /\ Tunnelled(n, sdb_tunnel_fm_get_qos_bw_limit(n))
      /\ Tunnelled(n, sdb_tunnel_fm_set_qos_bw_limit(n))
  <2>1. /\ Inner(sdb_tunnel_fm_get_ld_info, cmd_fmapi_get_ld_info)
        /\ Inner(sdb_tunnel_fm_get_ld_alloc(n),
                 cmd_fmapi_get_ld_allocations(n))
        /\ Inner(sdb_tunnel_fm_set_ld_alloc(n),
                 cmd_fmapi_set_ld_allocations(n))
        /\ Inner(sdb_tunnel_fm_get_qos_ctrl, cmd_fmapi_get_qos_control)
        /\ Inner(sdb_tunnel_fm_set_qos_ctrl, cmd_fmapi_set_qos_control)
        /\ Inner(sdb_tunnel_fm_get_qos_status, cmd_fmapi_get_qos_status)
        /\ Inner(sdb_tunnel_fm_get_qos_alloc_bw(n),
                 cmd_fmapi_get_qos_allocated_bw(n))
        /\ Inner(sdb_tunnel_fm_set_qos_alloc_bw(n),
                 cmd_fmapi_set_qos_allocated_bw(n))
        /\ Inner(sdb_tunnel_fm_get_qos_bw_limit(n),
                 cmd_fmapi_get_qos_bw_limit(n))
        /\ Inner(sdb_tunnel_fm_set_qos_bw_limit(n),
                 cmd_fmapi_set_qos_bw_limit(n))
    BY SMT DEF Inner, Fits, Numbers, sdb_tunnel_fm_get_ld_info,
       cmd_fmapi_get_ld_info, sdb_tunnel_fm_get_ld_alloc,
       cmd_fmapi_get_ld_allocations, sdb_tunnel_fm_set_ld_alloc,
       cmd_fmapi_set_ld_allocations, sdb_tunnel_fm_get_qos_ctrl,
       cmd_fmapi_get_qos_control, sdb_tunnel_fm_set_qos_ctrl,
       cmd_fmapi_set_qos_control, sdb_tunnel_fm_get_qos_status,
       cmd_fmapi_get_qos_status, sdb_tunnel_fm_get_qos_alloc_bw,
       cmd_fmapi_get_qos_allocated_bw, sdb_tunnel_fm_set_qos_alloc_bw,
       cmd_fmapi_set_qos_allocated_bw, sdb_tunnel_fm_get_qos_bw_limit,
       cmd_fmapi_get_qos_bw_limit, sdb_tunnel_fm_set_qos_bw_limit,
       cmd_fmapi_set_qos_bw_limit, Tunnel, Subcommand, Fixed, Reply, If,
       Exactly, List, u8
  <2> QED
    BY <1>1, <2>1, Zenon DEF Library, Fmapi
<1>7. /\ Tunnelled(n, sdb_tunnel_fm_dcd_get_info)
      /\ Tunnelled(n, sdb_tunnel_fm_dcd_get_region_config)
      /\ Tunnelled(n, sdb_tunnel_fm_dcd_set_region_config)
      /\ Tunnelled(n, sdb_tunnel_fm_dcd_get_ext_list(n))
      /\ Tunnelled(n, sdb_tunnel_fm_dcd_initiate_add(n))
      /\ Tunnelled(n, sdb_tunnel_fm_dcd_initiate_release(n))
      /\ Tunnelled(n, sdb_tunnel_fm_dcd_add_reference)
      /\ Tunnelled(n, sdb_tunnel_fm_dcd_remove_reference)
      /\ Tunnelled(n, sdb_tunnel_fm_dcd_list_tags(n))
  <2>1. /\ Inner(sdb_tunnel_fm_dcd_get_info, cmd_fmapi_get_dcd_info)
        /\ Inner(sdb_tunnel_fm_dcd_get_region_config,
                 cmd_fmapi_get_dc_reg_config)
        /\ Inner(sdb_tunnel_fm_dcd_set_region_config,
                 cmd_fmapi_set_dc_region_config)
        /\ Inner(sdb_tunnel_fm_dcd_get_ext_list(n),
                 cmd_fmapi_get_dc_region_ext_list(n))
        /\ Inner(sdb_tunnel_fm_dcd_initiate_add(n),
                 cmd_fmapi_initiate_dc_add(n))
        /\ Inner(sdb_tunnel_fm_dcd_initiate_release(n),
                 cmd_fmapi_initiate_dc_release(n))
        /\ Inner(sdb_tunnel_fm_dcd_add_reference, cmd_fmapi_dc_add_reference)
        /\ Inner(sdb_tunnel_fm_dcd_remove_reference,
                 cmd_fmapi_dc_remove_reference)
        /\ Inner(sdb_tunnel_fm_dcd_list_tags(n), cmd_fmapi_dc_list_tags(n))
    BY SMT DEF Inner, Fits, Numbers, sdb_tunnel_fm_dcd_get_info,
       cmd_fmapi_get_dcd_info, sdb_tunnel_fm_dcd_get_region_config,
       cmd_fmapi_get_dc_reg_config, sdb_tunnel_fm_dcd_set_region_config,
       cmd_fmapi_set_dc_region_config, sdb_tunnel_fm_dcd_get_ext_list,
       cmd_fmapi_get_dc_region_ext_list, sdb_tunnel_fm_dcd_initiate_add,
       cmd_fmapi_initiate_dc_add, sdb_tunnel_fm_dcd_initiate_release,
       cmd_fmapi_initiate_dc_release, sdb_tunnel_fm_dcd_add_reference,
       cmd_fmapi_dc_add_reference, sdb_tunnel_fm_dcd_remove_reference,
       cmd_fmapi_dc_remove_reference, sdb_tunnel_fm_dcd_list_tags,
       cmd_fmapi_dc_list_tags, Tunnel, Subcommand, Fixed, Reply, List, Ack,
       UpTo, If, SDB_DCD_MAX_EXTENTS
  <2> QED
    BY <1>1, <2>1, Zenon DEF Library, Fmapi
<1>8. /\ Tunnelled(n, sdb_tunnel_set_mctp_evt_int_policy)
      /\ Tunnelled(n, sdb_tunnel_get_feature(n))
  BY SMT DEF Tunnelled, Fits, Numbers, Differs, Tunnel, Subcommand, If, LooksUp,
     sdb_tunnel_set_mctp_evt_int_policy, sdb_tunnel_get_feature
<1>9. /\ Tunnelled(n, sdb_tunnel_pm_ppr) /\ Tunnelled(n, sdb_tunnel_pm_mbist(n))
      /\ Tunnelled(n, sdb_tunnel_vu_getdevcfg)
      /\ Tunnelled(n, sdb_tunnel_vu_ddrfreq) /\ Tunnelled(n, sdb_tunnel_vu_pciespeed)
  <2> DEFINE Copies(c, d) ==
               /\ c.via = "tunnel" /\ Numbers(c)
               /\ c.ok = FALSE \/ (Fits(c) /\ c.op = d.op /\ c.req = d.req /\ c.rsp = d.rsp)
  <2>1. \A c, d : d \in DirectCommands(n) /\ Copies(c, d) => Tunnelled(n, c)
    BY Zenon DEF Tunnelled, Known, Sizes
  <2>2. /\ Copies(sdb_tunnel_pm_ppr, tool_pm_ppr)
        /\ Copies(sdb_tunnel_pm_mbist(n), tool_pm_mbist(n))
    BY SMT DEF Fits, Numbers, sdb_tunnel_pm_ppr, tool_pm_ppr, sdb_tunnel_pm_mbist,
       tool_pm_mbist, If, InBackground, Tunnel, Direct, Subcommand,
       cmd_perform_maintenance, Ack, Fixed, Reply, PM_MBIST_MAX_TESTS
  <2>3. /\ Copies(sdb_tunnel_vu_getdevcfg, tool_vu_getdevcfg)
        /\ Copies(sdb_tunnel_vu_ddrfreq, tool_vu_ddrfreq)
        /\ Copies(sdb_tunnel_vu_pciespeed, tool_vu_pciespeed)
    BY SMT DEF Fits, Numbers, sdb_tunnel_vu_getdevcfg, tool_vu_getdevcfg,
       sdb_tunnel_vu_ddrfreq, tool_vu_ddrfreq, sdb_tunnel_vu_pciespeed,
       tool_vu_pciespeed, Vu, TunnelVu, Pages, Unlimited, Locked, Tunnel, Direct,
       Subcommand, cmd_vendor_specific, Fixed, Reply, OPCODE_VU, VU_BYTES
  <2> HIDE DEF Copies
  <2> QED
    BY <2>1, <2>2, <2>3, Zenon DEF DirectCommands
<1> QED
  BY <1>1, <1>2, <1>3, <1>4, <1>5, <1>6, <1>7, <1>8, <1>9,
     SMT DEF TunnelCommands

-----------------------------------------------------------------------------
(* The course of a run: which subcommand it is, and how far it is *)

\* Every value rc takes.
Values == {Signalled, -1, SUCCESS, BACKGROUND} \cup Errors

\* A run under way is a subcommand its options let pass; the lookups and the
\* pages left are within the bounds of that subcommand.
Course(p) ==
  /\ at[p] \notin {"idle", "exit"} => cmd[p] \in Offered[p] /\ cmd[p].ok
  /\ at[p] = "idle" => looks[p] = 0 /\ page[p] = 0
  /\ at[p] = "lookup" => looks[p] > 0
  /\ Numbers(cmd[p])
  /\ looks[p] \in Nat /\ looks[p] <= cmd[p].lookups
  /\ page[p] \in Nat /\ (page[p] = 0 \/ page[p] < cmd[p].pages)
  /\ rc[p] \in Values

IInv ==
  /\ looks = [p \in Runs |-> looks[p]] /\ page = [p \in Runs |-> page[p]]
  /\ \A p \in Runs : Course(p)

\* What is offered is in the table.
LEMMA OfferedNumbers == ASSUME NEW p \in Runs, NEW c \in Offered[p] PROVE Numbers(c)
<1>1. PICK n \in Args : c \in Subcommands(n)
  BY OfferedAssumption, Zenon
<1>2. n \in Nat
  BY SessionAssumption, Zenon
<1>3. CASE c \in DirectCommands(n)
  BY <1>2, <1>3, DirectPlain, Zenon DEF Plain
<1>4. CASE c \in TunnelCommands(n)
  BY <1>2, <1>4, TunnelSizes, Zenon DEF Tunnelled
<1>5. CASE c \in CciCommands(n)
  BY <1>2, <1>5, CciPlain, Zenon DEF Plain
<1> QED
  BY <1>1, <1>3, <1>4, <1>5, Zenon DEF Subcommands

\* The code of a command: success, in the background, an error of the device or
\* none of it.
LEMMA OutcomeCode ==
  ASSUME NEW c, NEW codes \in SUBSET {SUCCESS, BACKGROUND}, NEW allowed,
         NEW o \in Outcomes(c, codes, allowed)
  PROVE  o.rc \in Values
<1>1. \/ o = Outcome(-1, FALSE, FALSE)
      \/ \E e \in Errors : o = Outcome(e, FALSE, FALSE)
      \/ \E ran \in {FALSE, allowed} :
           o = Outcome(IF c.measured THEN -1 ELSE 0, ran, TRUE)
      \/ \E code \in codes \cup {-1, BACKGROUND} : o = Outcome(code, TRUE, FALSE)
  BY Zenon DEF Outcomes
<1>2. ASSUME NEW a, NEW r, NEW l, o = Outcome(a, r, l) PROVE o.rc = a
  BY <1>2, Zenon DEF Outcome
<1>3. \/ o.rc = -1 \/ o.rc \in Errors
      \/ o.rc = (IF c.measured THEN -1 ELSE 0)
      \/ o.rc \in codes \cup {-1, BACKGROUND}
  BY <1>1, <1>2, Zenon
<1> QED
  BY <1>3, Zenon DEF Values, SUCCESS

\* A step of run p leaves the course of the others alone.
Apart(p) ==
  /\ looks' = [q \in Runs |-> looks'[q]] /\ page' = [q \in Runs |-> page'[q]]
  /\ \A q \in Runs \ {p} :
       /\ at'[q] = at[q] /\ cmd'[q] = cmd[q] /\ rc'[q] = rc[q]
       /\ looks'[q] = looks[q] /\ page'[q] = page[q]

LEMMA OneCourse == ASSUME IInv, NEW p \in Runs, Apart(p), Course(p)' PROVE IInv'
<1>1. ASSUME NEW q \in Runs, q # p PROVE Course(q)'
  <2>1. Course(q) /\ at'[q] = at[q] /\ cmd'[q] = cmd[q] /\ rc'[q] = rc[q]
        /\ looks'[q] = looks[q] /\ page'[q] = page[q]
    BY <1>1, Zenon DEF IInv, Apart
  <2> QED
    BY <2>1, Zenon DEF Course, Numbers
<1> QED
  BY <1>1, Zenon DEF IInv, Apart

\* Starting: as many lookups at most as the subcommand may need.
LEMMA StartCourse ==
  ASSUME Inv, IInv, NEW p \in Runs, NEW c \in Offered[p], NEW k \in 0 .. c.lookups,
         Start(p, c, k)
  PROVE  IInv'
<1>1. /\ at[p] = "idle" /\ c.ok
      /\ cmd' = [cmd EXCEPT ![p] = c] /\ looks' = [looks EXCEPT ![p] = k]
      /\ at' = [at EXCEPT ![p] = IF k > 0 THEN "lookup" ELSE FirstStage(c)]
      /\ page' = page /\ rc' = rc
  BY Zenon DEF Start
<1>2. Shape /\ Course(p) /\ Numbers(c)
  BY OfferedNumbers, Zenon DEF Inv, IInv
<1>3. /\ Apart(p) /\ cmd'[p] = c /\ looks'[p] = k
      /\ at'[p] = (IF k > 0 THEN "lookup" ELSE FirstStage(c))
  BY <1>1, <1>2 DEF Shape, IInv, Apart
<1>4. k \in Nat /\ k <= c.lookups /\ page[p] = 0 /\ 0 \in Nat
  BY <1>1, <1>2 DEF Numbers, Course
<1>5. at'[p] \notin {"idle", "exit"} /\ (at'[p] = "lookup" => k > 0)
  BY <1>3 DEF FirstStage
<1>6. Course(p)'
  BY <1>1, <1>2, <1>3, <1>4, <1>5, Zenon DEF Course, Numbers
<1> QED
  BY <1>3, <1>6, OneCourse, Zenon

\* A run that ends keeps what it was.
LEMMA ExitCourse ==
  ASSUME Inv, IInv, NEW p \in Runs, NEW code \in Values, Exit(p, code),
         UNCHANGED <<cmd, looks, page>>
  PROVE  IInv'
<1>1. Shape /\ Course(p)
  BY Zenon DEF Inv, IInv
<1>2. /\ at' = [at EXCEPT ![p] = "exit"] /\ rc' = [rc EXCEPT ![p] = code]
      /\ cmd' = cmd /\ looks' = looks /\ page' = page
  BY Zenon DEF Exit
<1>3. Apart(p) /\ at'[p] = "exit" /\ rc'[p] = code
  BY <1>1, <1>2 DEF Shape, IInv, Apart
<1>4. Course(p)'
  BY <1>1, <1>2, <1>3 DEF Course, Numbers
<1> QED
  BY <1>3, <1>4, OneCourse, Zenon

\* A lookup that succeeds leaves one less.
LEMMA LookupCourse == ASSUME Inv, IInv, NEW p \in Runs, Lookup(p) PROVE IInv'
<1>1. Shape /\ Course(p) /\ at[p] = "lookup"
  BY Zenon DEF Inv, IInv, Lookup
<1>2. {SUCCESS} \in SUBSET {SUCCESS, BACKGROUND}
  OBVIOUS
<1>3. PICK o \in Outcomes(cmd[p], {SUCCESS}, TRUE), found \in BOOLEAN :
        IF o.rc = 0 /\ found
        THEN /\ looks' = [looks EXCEPT ![p] = looks[p] - 1]
             /\ at' = [at EXCEPT ![p] = IF looks[p] > 1 THEN "lookup"
                                        ELSE FirstStage(cmd[p])]
             /\ rc' = rc
        ELSE /\ Exit(p, IF cmd[p].via # "tunnel" \/ o.rc = 0 THEN -1 ELSE o.rc)
             /\ looks' = looks
  BY Zenon DEF Lookup
<1>4. cmd' = cmd /\ page' = page
  BY Zenon DEF Lookup
<1>5. o.rc \in Values
  BY <1>2, OutcomeCode, Zenon
<1>6. CASE o.rc = 0 /\ found
  <2>1. /\ looks' = [looks EXCEPT ![p] = looks[p] - 1]
        /\ at' = [at EXCEPT ![p] = IF looks[p] > 1 THEN "lookup"
                                   ELSE FirstStage(cmd[p])]
        /\ rc' = rc
    BY <1>3, <1>6, Zenon
  <2>2. /\ Apart(p) /\ looks'[p] = looks[p] - 1
        /\ at'[p] = (IF looks[p] > 1 THEN "lookup" ELSE FirstStage(cmd[p]))
    BY <1>1, <1>4, <2>1 DEF Shape, IInv, Apart
  <2>3. looks[p] \in Nat /\ looks[p] > 0 /\ looks[p] <= cmd[p].lookups
        /\ cmd[p].lookups \in Nat
    BY <1>1, Zenon DEF Course, Numbers
  <2>4. /\ looks'[p] \in Nat /\ looks'[p] <= cmd[p].lookups
        /\ at'[p] \notin {"idle", "exit"} /\ (at'[p] = "lookup" => looks'[p] > 0)
    BY <2>2, <2>3 DEF FirstStage
  <2>5. Course(p)'
    BY <1>1, <1>4, <2>1, <2>4, Zenon DEF Course, Numbers
  <2> QED
    BY <2>2, <2>5, OneCourse, Zenon
<1>7. CASE ~(o.rc = 0 /\ found)
  <2> DEFINE code == IF cmd[p].via # "tunnel" \/ o.rc = 0 THEN -1 ELSE o.rc
  <2>1. Exit(p, code) /\ UNCHANGED <<cmd, looks, page>>
    BY <1>3, <1>4, <1>7, Zenon
  <2>2. code \in Values
    BY <1>5, Zenon DEF Values
  <2> QED
    BY <2>1, <2>2, ExitCourse, Zenon
<1> QED
  BY <1>6, <1>7, Zenon

\* The unlock, when it succeeds, is followed by the work.
LEMMA UnlockCourse == ASSUME Inv, IInv, NEW p \in Runs, Unlock(p) PROVE IInv'
<1>1. Shape /\ Course(p) /\ at[p] = "unlock"
  BY Zenon DEF Inv, IInv, Unlock
<1>2. {SUCCESS} \in SUBSET {SUCCESS, BACKGROUND}
  OBVIOUS
<1>3. PICK o \in Outcomes(cmd[p], {SUCCESS}, TRUE) :
        IF o.rc = 0 THEN at' = [at EXCEPT ![p] = "work"] /\ rc' = rc
        ELSE Exit(p, o.rc)
  BY Zenon DEF Unlock
<1>4. UNCHANGED <<cmd, looks, page>>
  BY Zenon DEF Unlock
<1>5. o.rc \in Values
  BY <1>2, OutcomeCode, Zenon
<1>6. CASE o.rc = 0
  <2>1. at' = [at EXCEPT ![p] = "work"] /\ rc' = rc
    BY <1>3, <1>6, Zenon
  <2>2. Apart(p) /\ at'[p] = "work"
    BY <1>1, <1>4, <2>1 DEF Shape, IInv, Apart
  <2>3. Course(p)'
    BY <1>1, <1>4, <2>1, <2>2, Zenon DEF Course, Numbers
  <2> QED
    BY <2>2, <2>3, OneCourse, Zenon
<1>7. CASE o.rc # 0
  BY <1>3, <1>4, <1>5, <1>7, ExitCourse, Zenon
<1> QED
  BY <1>6, <1>7, Zenon

\* One more page, as long as there may be one, or the end of the work.
LEMMA WorkCourse == ASSUME Inv, IInv, NEW p \in Runs, Work(p) PROVE IInv'
<1>1. Shape /\ Course(p) /\ CommandAt(p) /\ at[p] = "work"
  BY Zenon DEF Inv, IInv, Work
<1>2. cmd[p].accepts \in SUBSET {SUCCESS, BACKGROUND}
  BY <1>1, Zenon DEF CommandAt
<1>3. cmd' = cmd /\ looks' = looks
  BY Zenon DEF Work
<1>4. PICK o \in Outcomes(cmd[p], cmd[p].accepts, Allowed(cmd[p])), m \in BOOLEAN :
        LET code == IF o.rc \in cmd[p].accepts THEN 0 ELSE o.rc IN
        \/ /\ ~LastPage(p)
           /\ page' = [page EXCEPT ![p] = IF cmd[p].pages = Unlimited
                                          THEN (page[p] + 1) % 2 ELSE page[p] + 1]
           /\ UNCHANGED <<at, rc>>
        \/ /\ Finish(p, page_rc(cmd[p], code, m))
           /\ page' = page
  BY ZenonT(40) DEF Work
<1> DEFINE code == IF o.rc \in cmd[p].accepts THEN 0 ELSE o.rc
<1>5. o.rc \in Values
  BY <1>2, OutcomeCode, ZenonT(40)
<1>6. page_rc(cmd[p], code, m) \in Values
  BY <1>5, Zenon DEF page_rc, Values, SUCCESS
<1>7. CASE /\ ~LastPage(p)
           /\ page' = [page EXCEPT ![p] = IF cmd[p].pages = Unlimited
                                          THEN (page[p] + 1) % 2 ELSE page[p] + 1]
           /\ UNCHANGED <<at, rc>>
  <2>1. /\ Apart(p)
        /\ page'[p] = IF cmd[p].pages = Unlimited
                      THEN (page[p] + 1) % 2 ELSE page[p] + 1
    BY <1>1, <1>3, <1>7 DEF Shape, IInv, Apart
  <2>2. /\ page[p] \in Nat /\ (page[p] = 0 \/ page[p] < cmd[p].pages)
        /\ cmd[p].pages \in Nat
    BY <1>1, Zenon DEF Course, Numbers
  <2>3. page'[p] \in Nat /\ (page'[p] = 0 \/ page'[p] < cmd[p].pages)
    BY <1>7, <2>1, <2>2, SMT DEF LastPage, Unlimited
  <2>4. Course(p)'
    BY <1>1, <1>3, <1>7, <2>3, Zenon DEF Course, Numbers
  <2> QED
    BY <2>1, <2>4, OneCourse, Zenon
<1>8. CASE Finish(p, page_rc(cmd[p], code, m)) /\ page' = page
  <2>1. CASE cmd[p].locked
    <3>1. /\ at' = [at EXCEPT ![p] = "lock"]
          /\ rc' = [rc EXCEPT ![p] = page_rc(cmd[p], code, m)]
      BY <1>8, <2>1, Zenon DEF Finish
    <3> HIDE DEF code
    <3>2. Apart(p) /\ at'[p] = "lock" /\ rc'[p] = page_rc(cmd[p], code, m)
      BY <1>1, <1>3, <1>8, <3>1 DEF Shape, IInv, Apart
    <3>3. Course(p)'
      BY <1>1, <1>3, <1>6, <1>8, <3>2, Zenon DEF Course, Numbers
    <3> QED
      BY <3>2, <3>3, OneCourse, Zenon
  <2>2. CASE ~cmd[p].locked
    <3>1. Exit(p, page_rc(cmd[p], code, m)) /\ UNCHANGED <<cmd, looks, page>>
      BY <1>3, <1>8, <2>2, Zenon DEF Finish
    <3> QED
      BY <1>6, <3>1, ExitCourse, Zenon
  <2> QED
    BY <2>1, <2>2, Zenon
<1> QED
  BY <1>4, <1>7, <1>8, Zenon

\* The lock ends the run, as do the refusals and the signals.
LEMMA EndCourse ==
  ASSUME Inv, IInv, NEW p \in Runs, Lock(p) \/ Refuse(p) \/ Crash(p) \/ Kill(p)
  PROVE  IInv'
<1>1. ASSUME Lock(p) PROVE IInv'
  <2>1. PICK o \in Outcomes(cmd[p], {SUCCESS}, TRUE) : Exit(p, lock_rc(rc[p], o.rc))
    BY <1>1, Zenon DEF Lock
  <2>2. {SUCCESS} \in SUBSET {SUCCESS, BACKGROUND} /\ rc[p] \in Values
    BY Zenon DEF IInv, Course
  <2>3. o.rc \in Values
    BY <2>2, OutcomeCode, Zenon
  <2>4. lock_rc(rc[p], o.rc) \in Values
    BY <2>2, <2>3, Zenon DEF lock_rc
  <2>5. UNCHANGED <<cmd, looks, page>>
    BY <1>1, Zenon DEF Lock
  <2> QED
    BY <2>1, <2>4, <2>5, ExitCourse, Zenon
<1>2. ASSUME Refuse(p) \/ Crash(p) \/ Kill(p) PROVE IInv'
  <2>1. -1 \in Values /\ Signalled \in Values
    BY Zenon DEF Values
  <2>2. /\ Exit(p, -1) \/ Exit(p, Signalled)
        /\ UNCHANGED <<cmd, looks, page>>
    BY <1>2, Zenon DEF Refuse, Crash, Kill, Exit
  <2> QED
    BY <2>1, <2>2, ExitCourse, Zenon
<1> QED
  BY <1>1, <1>2, Zenon

LEMMA InitCourse == Init => IInv
<1> SUFFICES ASSUME Init PROVE IInv
  OBVIOUS
<1>1. /\ looks = [p \in Runs |-> looks[p]] /\ page = [p \in Runs |-> page[p]]
      /\ \A p \in Runs : /\ at[p] = "idle" /\ looks[p] = 0 /\ page[p] = 0
                         /\ rc[p] = 0 /\ cmd[p] = None
  BY Zenon DEF Init
<1>2. Numbers(None) /\ 0 <= None.lookups /\ 0 \in Nat /\ ~(0 > 0)
  BY SMT DEF Numbers, None, Tunnel, Subcommand
<1>3. 0 \in Values
  BY Zenon DEF Values, SUCCESS
<1>4. \A p \in Runs : Course(p)
  BY <1>1, <1>2, <1>3, Zenon DEF Course
<1> QED
  BY <1>1, <1>4, Zenon DEF IInv

LEMMA StepCourse == Inv /\ IInv /\ [Next]_vars => IInv'
<1> SUFFICES ASSUME Inv, IInv, [Next]_vars PROVE IInv'
  OBVIOUS
<1>1. ASSUME NEW p \in Runs, Begin(p) PROVE IInv'
  <2>1. ASSUME NEW c \in Offered[p], NEW k \in 0 .. c.lookups, Start(p, c, k)
        PROVE  IInv'
    BY <2>1, StartCourse, Zenon
  <2> QED
    BY <1>1, <2>1, EndCourse, Zenon DEF Begin
<1>2. ASSUME NEW p \in Runs, Step(p) PROVE IInv'
  BY <1>2, LookupCourse, UnlockCourse, WorkCourse, EndCourse, Zenon DEF Step
<1>3. CASE UNCHANGED vars
  <2>1. UNCHANGED <<at, cmd, looks, page, rc>>
    BY <1>3, Zenon DEF vars
  <2> QED
    BY <2>1, Zenon DEF IInv, Course, Numbers
<1> QED
  BY <1>1, <1>2, <1>3, EndCourse, Zenon DEF Next, Done

LEMMA CourseInvariant == Spec => []IInv
<1>1. Spec => []Inv
  BY Invariant
<1> QED
  BY <1>1, InitCourse, StepCourse, PTL DEF Spec

-----------------------------------------------------------------------------

\* Types; the lookups and pages of a run stay within the bounds of its
\* subcommand, and its status is one of those the code produces.
THEOREM TypeCorrect == Spec => []TypeOK
<1>1. Inv /\ IInv => TypeOK
  <2> SUFFICES ASSUME Inv, IInv PROVE TypeOK
    OBVIOUS
  <2>1. Shape
    BY Zenon DEF Inv
  <2>2. ASSUME NEW p \in Runs
        PROVE  /\ {cmd[p].op, cmd[p].req, cmd[p].rsp, cmd[p].pages} \subseteq Nat
               /\ looks[p] \in 0 .. cmd[p].lookups
               /\ page[p] = 0 \/ page[p] < cmd[p].pages
               /\ rc[p] \in {Signalled, -1, SUCCESS, BACKGROUND} \cup Errors
    <3>1. Course(p)
      BY Zenon DEF IInv
    <3>2. looks[p] \in 0 .. cmd[p].lookups
      BY <3>1, SMT DEF Course, Numbers
    <3> QED
      BY <3>1, <3>2, Zenon DEF Course, Numbers, Values
  <2> QED
    BY <2>1, <2>2, Zenon DEF TypeOK, Shape, Stages
<1> QED
  BY <1>1, Invariant, CourseInvariant, PTL

\* A subcommand under way through the tunnel is one of the table, and one the
\* option parser let pass.
LEMMA UnderWay ==
  ASSUME IInv, NEW p \in Runs, at[p] \notin {"idle", "exit"}, cmd[p].via = "tunnel"
  PROVE  \E n \in Args : n \in Nat /\ cmd[p] \in TunnelCommands(n)
                         /\ Tunnelled(n, cmd[p]) /\ cmd[p].ok
<1>1. cmd[p] \in Offered[p] /\ cmd[p].ok
  BY Zenon DEF IInv, Course
<1>2. PICK n \in Args : cmd[p] \in Subcommands(n)
  BY <1>1, OfferedAssumption, Zenon
<1>3. n \in Nat
  BY SessionAssumption, Zenon
<1>4. cmd[p] \in TunnelCommands(n)
  BY <1>2, <1>3, DirectPlain, CciPlain, Zenon DEF Plain, Subcommands
<1> QED
  BY <1>1, <1>3, <1>4, TunnelSizes, Zenon

\* For every argument and every tunnelled subcommand of the table, what
\* cmd_sdb_tunnel.c builds by hand has the sizes the library uses for the same
\* opcode with the same argument.
THEOREM TunnelMirrorsLibrary == Spec => []TunnelledAlike
<1>1. IInv => TunnelledAlike
  <2> SUFFICES ASSUME IInv, NEW p \in Runs, NEW n \in Args,
                      at[p] \notin {"idle", "exit"}, cmd[p].op \notin Differs,
                      cmd[p] \in Tunnels[n]
               PROVE  Sizes(cmd[p], cmd[p].rsp) \in DirectSizes[n]
    BY Zenon DEF TunnelledAlike
  <2>1. Tunnelled(n, cmd[p]) /\ cmd[p].ok
    <3>1. cmd[p].ok /\ n \in Nat /\ cmd[p] \in TunnelCommands(n)
      BY SessionAssumption, Zenon DEF IInv, Course, Tunnels
    <3> QED BY <3>1, TunnelSizes, Zenon
  <2>2. Sizes(cmd[p], cmd[p].rsp) \in Known(n)
    BY <2>1, Zenon DEF Tunnelled
  <2> QED
    BY <2>2, Zenon DEF Known, DirectSizes
<1> QED
  BY <1>1, CourseInvariant, PTL

\* command_size, of 16 bits, holds the size of every message sent through the
\* tunnel by a subcommand of the table: the option parsers bound the arguments
\* that size it.  (The chunks of the tunnelled transfer-fw are not of the table.)
THEOREM CommandSizeExact == Spec => []AnnouncedSize
<1>1. IInv => AnnouncedSize
  <2> SUFFICES ASSUME IInv, NEW p \in Runs, at[p] \notin {"idle", "exit"},
                      cmd[p].via = "tunnel"
               PROVE  u16(12 + cmd[p].req) = 12 + cmd[p].req
    BY Zenon DEF AnnouncedSize
  <2>1. PICK n \in Args : Tunnelled(n, cmd[p]) /\ cmd[p].ok
    BY UnderWay, Zenon
  <2>2. Fits(cmd[p]) /\ cmd[p].req \in Nat
    BY <2>1, Zenon DEF Tunnelled, Numbers
  <2> QED
    BY <2>2, SMT DEF Fits, u16
<1> QED
  BY <1>1, CourseInvariant, PTL

-----------------------------------------------------------------------------

\* What the number of commands left depends on.
Place(p) == <<at[p], cmd[p], looks[p], page[p]>>

\* A count: the pages read are fewer than there may be.
LEMMA LeftNatural ==
  ASSUME Inv, IInv, NEW p \in Runs
  PROVE  CommandsLeft(p) \in Nat
<1>1. Course(p)
  BY Zenon DEF IInv
<1>2. /\ looks[p] \in Nat /\ page[p] \in Nat /\ cmd[p].pages \in Nat
      /\ page[p] = 0 \/ page[p] < cmd[p].pages
  BY <1>1, Zenon DEF Course, Numbers
<1> QED
  BY <1>2, SMT DEF CommandsLeft

\* A command uses up one of those left.
LEMMA StepFewer ==
  ASSUME Inv, IInv, NEW p \in Runs, Step(p), cmd[p].pages # Unlimited
  PROVE  CommandsLeft(p)' < CommandsLeft(p)
<1>1. Shape /\ Course(p)
  BY Zenon DEF Inv, IInv
<1>2. /\ looks[p] \in Nat /\ page[p] \in Nat /\ cmd[p].pages \in Nat
      /\ page[p] = 0 \/ page[p] < cmd[p].pages
      /\ at[p] = "lookup" => looks[p] > 0
  BY <1>1, Zenon DEF Course, Numbers
<1>3. CASE Lookup(p)
  <2>1. /\ at[p] = "lookup" /\ cmd' = cmd /\ page' = page
        /\ \/ /\ looks' = [looks EXCEPT ![p] = looks[p] - 1]
              /\ at' = [at EXCEPT ![p] = IF looks[p] > 1 THEN "lookup"
                                         ELSE FirstStage(cmd[p])]
           \/ at' = [at EXCEPT ![p] = "exit"]
    BY <1>3, ZenonT(40) DEF Lookup, Exit
  <2>2. \/ /\ looks'[p] = looks[p] - 1
           /\ at'[p] = (IF looks[p] > 1 THEN "lookup" ELSE FirstStage(cmd[p]))
        \/ at'[p] = "exit"
    BY <1>1, <2>1 DEF Shape, IInv
  <2>3. FirstStage(cmd[p]) = "unlock" \/ FirstStage(cmd[p]) = "work"
    BY Zenon DEF FirstStage
  <2> QED
    BY <1>2, <2>1, <2>2, <2>3, SMT DEF CommandsLeft
<1>4. CASE Unlock(p)
  <2>1. /\ at[p] = "unlock" /\ cmd' = cmd /\ page' = page
        /\ at' = [at EXCEPT ![p] = "work"] \/ at' = [at EXCEPT ![p] = "exit"]
    BY <1>4, ZenonT(40) DEF Unlock, Exit
  <2>2. at'[p] = "work" \/ at'[p] = "exit"
    BY <1>1, <2>1 DEF Shape
  <2> QED
    BY <1>2, <2>1, <2>2, SMT DEF CommandsLeft
<1>5. CASE Work(p)
  <2>1. /\ at[p] = "work" /\ cmd' = cmd
        /\ \/ /\ ~LastPage(p) /\ at' = at
              /\ page' = [page EXCEPT ![p] = IF cmd[p].pages = Unlimited
                                             THEN (page[p] + 1) % 2 ELSE page[p] + 1]
           \/ at' = [at EXCEPT ![p] = "lock"] \/ at' = [at EXCEPT ![p] = "exit"]
    BY <1>5, ZenonT(40) DEF Work, Finish, Exit
  <2>2. \/ ~LastPage(p) /\ at'[p] = "work" /\ page'[p] = page[p] + 1
        \/ at'[p] = "lock" \/ at'[p] = "exit"
    BY <1>1, <2>1 DEF Shape, IInv
  <2> QED
    BY <1>2, <2>1, <2>2, SMT DEF CommandsLeft, LastPage
<1>6. CASE Lock(p)
  <2>1. at[p] = "lock" /\ cmd' = cmd /\ at' = [at EXCEPT ![p] = "exit"]
    BY <1>6, Zenon DEF Lock, Exit
  <2>2. at'[p] = "exit"
    BY <1>1, <2>1 DEF Shape
  <2> QED
    BY <2>1, <2>2, SMT DEF CommandsLeft
<1> QED
  BY <1>3, <1>4, <1>5, <1>6, Zenon DEF Step

\* A run is moved by its own steps only.
LEMMA OthersStay ==
  ASSUME Inv, IInv, NEW p \in Runs, Begin(p) \/ Step(p) \/ Kill(p),
         NEW q \in Runs, q # p
  PROVE  Place(q)' = Place(q)
<1>1. Shape /\ looks = [r \in Runs |-> looks[r]] /\ page = [r \in Runs |-> page[r]]
  BY Zenon DEF Inv, IInv
<1>2. /\ at' = at \/ \E v : at' = [at EXCEPT ![p] = v]
      /\ cmd' = cmd \/ \E v : cmd' = [cmd EXCEPT ![p] = v]
      /\ looks' = looks \/ \E v : looks' = [looks EXCEPT ![p] = v]
      /\ page' = page \/ \E v : page' = [page EXCEPT ![p] = v]
  <2>1. CASE Begin(p)
    BY <2>1, ZenonT(40) DEF Begin, Start, Refuse, Crash
  <2>2. CASE Lookup(p)
    BY <2>2, ZenonT(40) DEF Lookup, Exit
  <2>3. CASE Unlock(p)
    BY <2>3, ZenonT(40) DEF Unlock, Exit
  <2>4. CASE Work(p)
    BY <2>4, ZenonT(40) DEF Work, Finish, Exit
  <2>5. CASE Lock(p) \/ Kill(p)
    BY <2>5, ZenonT(40) DEF Lock, Kill, Exit
  <2> QED
    BY <2>1, <2>2, <2>3, <2>4, <2>5, Zenon DEF Step
<1> QED
  BY <1>1, <1>2 DEF Shape, Place

\* Every run but those of the readers without a limit sends a limited number of
\* commands, for any device, any other runs and any limit of the pages: with
\* the fairness of its steps, this is why it ends.
THEOREM RunsAreLimited == Spec => CommandsRunOut
<1> DEFINE Fewer(p) ==
      at[p] # "idle" /\ cmd[p].pages # Unlimited =>
        /\ CommandsLeft(p)' \in 0 .. CommandsLeft(p)
        /\ Step(p) => CommandsLeft(p)' < CommandsLeft(p)
<1>1. ASSUME Inv, IInv, IInv', Inv', [Next]_vars, NEW p \in Runs PROVE Fewer(p)
  <2> SUFFICES ASSUME at[p] # "idle", cmd[p].pages # Unlimited
               PROVE  /\ CommandsLeft(p)' \in 0 .. CommandsLeft(p)
                      /\ Step(p) => CommandsLeft(p)' < CommandsLeft(p)
    BY Zenon
  <2>1. CommandsLeft(p) \in Nat
    BY <1>1, LeftNatural, Zenon
  <2>2. CommandsLeft(p)' \in Nat
    <3>1. Course(p)'
      BY <1>1, Zenon DEF IInv
    <3>2. /\ looks'[p] \in Nat /\ page'[p] \in Nat /\ cmd'[p].pages \in Nat
          /\ page'[p] = 0 \/ page'[p] < cmd'[p].pages
      BY <3>1, Zenon DEF Course, Numbers
    <3> QED
      BY <3>2, SMT DEF CommandsLeft
  <2>3. CASE Step(p)
    BY <1>1, <2>1, <2>2, <2>3, StepFewer
  <2>4. CASE Kill(p)
    <3>1. at'[p] = "exit"
      BY <1>1, <2>4 DEF Kill, Exit, Inv, Shape
    <3>2. CommandsLeft(p)' = 0
      BY <3>1, Zenon DEF CommandsLeft
    <3> QED
      BY <1>1, <2>1, <2>2, <3>2, StepFewer
  <2>5. CASE ~Step(p) /\ ~Kill(p)
    <3>1. ~Begin(p)
      BY Zenon DEF Begin, Start, Refuse, Crash
    <3>2. Place(p)' = Place(p)
      <4>1. CASE UNCHANGED vars
        BY <4>1, Zenon DEF vars, Place
      <4>2. ASSUME NEW q \in Runs, Begin(q) \/ Step(q) \/ Kill(q) PROVE Place(p)' = Place(p)
        <5>1. q # p
          BY <2>5, <3>1, <4>2, Zenon
        <5> QED
          BY <1>1, <4>2, <5>1, OthersStay, Zenon
      <4> QED
        BY <1>1, <4>1, <4>2, Zenon DEF Next, Done
    <3>3. CommandsLeft(p)' = CommandsLeft(p)
      BY <3>2, Zenon DEF Place, CommandsLeft
    <3> QED
      BY <2>1, <2>5, <3>3
  <2> QED
    BY <2>3, <2>4, <2>5, Zenon
<1>2. Inv /\ IInv /\ Inv' /\ IInv' /\ [Next]_vars => [\A p \in Runs : Fewer(p)]_vars
  BY <1>1, Zenon
<1> QED
  BY <1>2, Invariant, CourseInvariant, PTL DEF Spec, CommandsRunOut
=============================================================================
