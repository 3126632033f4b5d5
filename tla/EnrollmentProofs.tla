-------------------------- MODULE EnrollmentProofs --------------------------
(***************************************************************************)
(* What Enrollment's run checks, proved for any number of enroll commands, *)
(* tokens, saves and kills: the binding a host keeps is a system the hub   *)
(* knows with this host's key, it is emptied only by an enroll that could  *)
(* not decode its answer, and a crash leaves a state.json that parses      *)
(* unless two processes were saving.                                       *)
(***************************************************************************)
EXTENDS Enrollment, TLAPS

-----------------------------------------------------------------------------
(* Type correctness.                                                       *)

Active(step) == step \notin {"idle", "done", "failed"}

\* One enroll command runs at a time.
OneCommand == \A c, d \in Clis : Active(cli[c]) /\ Active(cli[d]) => c = d

\* The tokens, the systems and the keys.
HubOK ==
  /\ minted \subseteq Tokens /\ expired \subseteq minted /\ used \subseteq minted
  /\ systems \subseteq Clis /\ sysKey \in [Clis -> Clis \cup {None}]
  /\ post \in [Clis -> {"none", "sent", "checked", "ok", "error"}]

EnrollOK ==
  /\ cli \in [Clis -> CliSteps]
  /\ token \in [Clis -> Tokens \cup {None}] /\ pub \in [Clis -> Clis \cup {None}]
  /\ blank \subseteq Clis
  /\ keyFile \in {"absent", "torn"} \cup Clis

\* The files, and who has which open.
DiskOK ==
  /\ file \in [{"state", "tmp"} -> {"absent", "torn", "unbound"} \cup Clis]
  /\ fd \in [Savers -> {"none", "state", "tmp"}]
  /\ shared \in BOOLEAN

OpenFiles ==
  /\ fd["daemon"] # "none" => daemon = "fill"
  /\ fd["cli"] # "none" => \E c \in Clis : cli[c] = "fill"

AgentOK ==
  /\ daemon \in {"down", "up", "open", "fill", "rename"}
  /\ mem \in [sys : Clis \cup {None}, key : Clis \cup {None}]
  /\ daemon # "down" => mem.sys \in Clis
  /\ bound \in Clis \cup {"unbound", None}

BoundsOK == saves \in 0..MaxSaves /\ faults \in 0..MaxFaults

\* A POST that has been sent or answered "ok" has its token: TypeOK needs it
\* for used.
PostHasToken == \A c \in Clis : Active(cli[c]) \/ post[c] # "none" => token[c] \in minted

TypeInv == /\ HubOK /\ EnrollOK /\ DiskOK /\ OpenFiles /\ AgentOK /\ BoundsOK
           /\ OneCommand /\ PostHasToken

(* What Save does to the files keeps them typed.                           *)
LEMMA OpensOK ==
  ASSUME DiskOK, NEW s \in Savers, Opens(s)
  PROVE  DiskOK' /\ fd'[s] = "tmp" /\ (\A o \in Savers \ {s} : fd'[o] = fd[o])
<1>1. shared' \in BOOLEAN
  BY DEF Opens, DiskOK
<1>2. QED BY <1>1 DEF Opens, DiskOK, Target, Savers

LEMMA FillsOK ==
  ASSUME DiskOK, NEW s \in Savers, NEW sys \in Clis \cup {"unbound"}, Fills(s, sys)
  PROVE  DiskOK' /\ fd'[s] = "none" /\ (\A o \in Savers \ {s} : fd'[o] = fd[o])
BY DEF Fills, Closes, DiskOK, Savers

LEMMA SystemIDType == \A c \in Clis : SystemID(c) \in Clis \cup {"unbound"}
BY DEF SystemID

LEMMA RenamesOK ==
  ASSUME DiskOK, Renames
  PROVE  DiskOK' /\ (\A s \in Savers : fd[s] = "none" => fd'[s] = "none")
BY DEF Renames, DiskOK, Savers

(* The hub's steps keep the types.                                         *)
LEMMA HubStepTypes ==
  ASSUME TypeInv,
         \/ \E t \in Tokens : Mint(t) \/ Expire(t)
         \/ \E c \in Clis : CheckToken(c) \/ Redeem(c)
  PROVE  TypeInv'
<1> USE DEF TypeInv, OpenFiles, AgentOK, OneCommand, enroll, disk
<1>1. HubOK' /\ PostHasToken'
  <2>1. ASSUME NEW t \in Tokens, Mint(t) PROVE HubOK' /\ PostHasToken'
    BY <2>1 DEF Mint, HubOK, PostHasToken
  <2>2. ASSUME NEW t \in Tokens, Expire(t) PROVE HubOK' /\ PostHasToken'
    BY <2>2 DEF Expire, HubOK, PostHasToken
  <2>3. ASSUME NEW c \in Clis, CheckToken(c) PROVE HubOK' /\ PostHasToken'
    BY <2>3 DEF CheckToken, Answers, HubOK, PostHasToken
  <2>4. ASSUME NEW c \in Clis, Redeem(c) PROVE HubOK' /\ PostHasToken'
    <3>1. token[c] \in minted /\ pub[c] \in Clis \cup {None}
      BY <2>4 DEF Redeem, Answers, PostHasToken, EnrollOK
    <3>2. QED BY <2>4, <3>1 DEF Redeem, Answers, HubOK, PostHasToken
  <2>5. QED BY <2>1, <2>2, <2>3, <2>4
<1>2. BoundsOK'
  BY BoundAssumption DEF Mint, Expire, CheckToken, Redeem, Fault, BoundsOK
<1>3. UNCHANGED <<cli, token, pub, blank, keyFile, file, fd, shared, daemon, mem, bound>>
  BY DEF Mint, Expire, CheckToken, Redeem
<1>4. QED BY <1>1, <1>2, <1>3 DEF EnrollOK, DiskOK

(* So do the steps of an enroll command.                                   *)
LEMMA EnrollStepTypes ==
  ASSUME TypeInv, NEW c \in Clis,
         \/ Enroll(c) \/ WritesKey(c) \/ Posts(c) \/ Reads(c)
         \/ Loads(c) \/ Saves(c) \/ Killed(c)
  PROVE  TypeInv'
<1> USE DEF TypeInv, hub, enroll, disk
<1>1. EnrollOK'
  BY ContentAssumption
  DEF EnrollOK, CliSteps, HubOK, Goes, HasKey, Enroll, WritesKey, Posts, Reads, Loads, Saves, Killed,
      Opens, Fills, Renames, CannotRename
<1>2. OneCommand' /\ PostHasToken'
  BY DEF EnrollOK, HubOK, OneCommand, PostHasToken, Active, Goes, Answers, Enroll, WritesKey, Posts,
         Reads, Loads, Saves, Killed
<1>3. HubOK'
  BY DEF HubOK, Answers, Enroll, WritesKey, Posts, Reads, Loads, Saves, Killed
<1>4. AgentOK' /\ BoundsOK'
  BY BoundAssumption, SystemIDType
  DEF AgentOK, BoundsOK, Fault, Enroll, WritesKey, Posts, Reads, Loads, Saves, Killed
<1>5. DiskOK' /\ OpenFiles'
  <2>1. CASE Saves(c)
    <3>1. CASE Goes(c, "open", "fill") /\ Opens("cli")
      BY <2>1, <3>1, OpensOK DEF Saves, OpenFiles, Goes, EnrollOK, Savers
    <3>2. CASE Goes(c, "fill", "rename") /\ Fills("cli", SystemID(c))
      BY <2>1, <3>2, FillsOK, SystemIDType DEF Saves, OpenFiles, Goes, EnrollOK, Savers
    <3>3. CASE Goes(c, "rename", "done") /\ Renames
      <4>1. fd["cli"] = "none"
        BY <3>3 DEF OpenFiles, OneCommand, Active, Goes
      <4>2. QED BY <2>1, <3>3, <4>1, RenamesOK DEF Saves, OpenFiles, Savers
    <3>4. CASE Goes(c, "rename", "failed") /\ CannotRename
      BY <2>1, <3>4 DEF Saves, OpenFiles, DiskOK, CannotRename, Goes, EnrollOK
    <3>5. QED BY <2>1, <3>1, <3>2, <3>3, <3>4 DEF Saves
  <2>2. CASE Killed(c)
    BY <2>2 DEF Killed, DiskOK, OpenFiles, Savers
  <2>3. CASE Enroll(c) \/ WritesKey(c) \/ Posts(c) \/ Reads(c) \/ Loads(c)
    <3>1. UNCHANGED <<file, fd, shared, daemon>> /\ cli[c] # "fill"
      BY <2>3 DEF Enroll, WritesKey, Posts, Reads, Loads, Goes
    <3>2. \A d \in Clis \ {c} : cli'[d] = cli[d]
      BY <2>3 DEF Enroll, WritesKey, Posts, Reads, Loads, Goes, EnrollOK
    <3>3. QED BY <3>1, <3>2 DEF DiskOK, OpenFiles
  <2>4. QED BY <2>1, <2>2, <2>3
<1>6. QED BY <1>1, <1>2, <1>3, <1>4, <1>5

(* So do the steps of the running agent.                                   *)
LEMMA AgentStepTypes ==
  ASSUME TypeInv, Boots \/ StartsSave \/ DaemonSaves \/ Stops
  PROVE  TypeInv'
<1> USE DEF TypeInv, hub, enroll
<1>1. HubOK' /\ EnrollOK' /\ OneCommand' /\ PostHasToken'
  BY DEF HubOK, EnrollOK, OneCommand, PostHasToken, Boots, StartsSave, DaemonSaves, Stops,
         disk, Opens, Fills, Renames, CannotRename
<1>2. BoundsOK'
  BY BoundAssumption DEF BoundsOK, Fault, Boots, StartsSave, DaemonSaves, Stops
<1>3. AgentOK'
  BY DEF AgentOK, Boots, StartsSave, DaemonSaves, Stops
<1>4. DiskOK' /\ OpenFiles'
  <2>1. CASE DaemonSaves
    <3>1. CASE daemon = "open" /\ daemon' = "fill" /\ Opens("daemon")
      BY <2>1, <3>1, OpensOK DEF DaemonSaves, OpenFiles, Savers
    <3>2. CASE daemon = "fill" /\ daemon' = "rename" /\ Fills("daemon", mem.sys)
      BY <2>1, <3>2, FillsOK DEF DaemonSaves, OpenFiles, Savers, AgentOK
    <3>3. CASE daemon = "rename" /\ daemon' = "up" /\ Renames
      BY <2>1, <3>3, RenamesOK DEF DaemonSaves, OpenFiles, Savers
    <3>4. CASE daemon = "rename" /\ daemon' = "up" /\ CannotRename
      BY <2>1, <3>4 DEF DaemonSaves, CannotRename, disk, OpenFiles, DiskOK
    <3>5. QED BY <2>1, <3>1, <3>2, <3>3, <3>4 DEF DaemonSaves
  <2>2. CASE Stops
    BY <2>2 DEF Stops, DiskOK, OpenFiles, Savers
  <2>3. CASE Boots \/ StartsSave
    BY <2>3 DEF Boots, StartsSave, DiskOK, OpenFiles, disk
  <2>4. QED BY <2>1, <2>2, <2>3
<1>5. QED BY <1>1, <1>2, <1>3, <1>4

(* Every step keeps the types.                                             *)
LEMMA StepTypes ==
  ASSUME TypeInv, [Next]_vars
  PROVE  TypeInv'
<1>1. CASE UNCHANGED vars
  BY <1>1 DEF vars, hub, enroll, disk, TypeInv, HubOK, EnrollOK, DiskOK, OpenFiles, AgentOK, BoundsOK,
              OneCommand, PostHasToken
<1>2. QED
  BY <1>1, HubStepTypes, EnrollStepTypes, AgentStepTypes DEF Next

(* The types, and that one command runs at a time, hold throughout.        *)
LEMMA TypeInvariant == Spec => []TypeInv
<1>1. Init => TypeInv
  <2> SUFFICES ASSUME Init PROVE TypeInv
    OBVIOUS
  <2>1. HubOK /\ EnrollOK
    BY DEF Init, HubOK, EnrollOK, CliSteps
  <2>2. DiskOK /\ OpenFiles
    BY DEF Init, DiskOK, OpenFiles, Savers
  <2>3. AgentOK /\ BoundsOK
    BY BoundAssumption DEF Init, AgentOK, BoundsOK
  <2>4. OneCommand /\ PostHasToken
    BY DEF Init, OneCommand, PostHasToken, Active
  <2>5. QED BY <2>1, <2>2, <2>3, <2>4 DEF TypeInv
<1>2. TypeInv /\ [Next]_vars => TypeInv'
  BY StepTypes
<1>3. QED BY <1>1, <1>2, PTL DEF Spec

(* Every variable stays in its range; nobody but a saver has a file open.  *)
THEOREM TypeCorrect == Spec => []TypeOK
<1>1. TypeInv => TypeOK
  BY DEF TypeInv, HubOK, EnrollOK, DiskOK, OpenFiles, AgentOK, BoundsOK, TypeOK
<1>2. QED BY <1>1, TypeInvariant, PTL

-----------------------------------------------------------------------------
(* The binding.                                                            *)

\* A key that has been written is the key of the host for good: whatever a
\* command sends, and whatever the hub holds of this host, is that key.
KeyInv ==
  /\ \A c \in Clis : cli[c] = "write" => keyFile = "torn"
  /\ \A c \in Clis : pub[c] # None => pub[c] = keyFile
  /\ \A c \in Clis : cli[c] \in {"post", "wait", "load", "open", "fill", "rename"} => pub[c] # None
  /\ \A c \in Clis : post[c] # "none" => pub[c] # None
  /\ \A s \in systems : sysKey[s] = keyFile /\ keyFile \in Clis

\* The id that a file holds, if any, is that of a system the hub has; if it is
\* empty, some command had no answer it could decode.
Accounted(id) == (id \in Clis => id \in systems) /\ (id = "unbound" => blank # {})

\* A system id gets into a file, or into the agent's memory, after the hub has
\* made the system: the command reads the answer before it saves.
OriginInv ==
  /\ \A c \in Clis : post[c] = "ok" => c \in systems
  /\ \A c \in Clis : cli[c] \in {"load", "open", "fill", "rename"} => c \in systems \cup blank
  /\ \A f \in {"state", "tmp"} : Accounted(file[f])
  /\ daemon # "down" => mem.sys \in systems /\ mem.key = keyFile

(* A step may create the host's key, never change it.                      *)
LEMMA KeyIsKept ==
  ASSUME TypeInv, KeyInv, [Next]_vars, keyFile \in Clis
  PROVE  UNCHANGED keyFile
<1>1. keyFile # "absent" /\ keyFile # "torn"
  BY ContentAssumption
<1>2. QED
  BY <1>1 DEF Next, vars, hub, enroll, disk, KeyInv, HasKey, Goes, Mint, Expire, CheckToken, Redeem,
     Enroll, WritesKey, Posts, Reads, Loads, Saves, Killed, Boots, StartsSave, DaemonSaves, Stops,
     Opens, Fills, Renames, CannotRename

(* Nor does a step forget a system.                                        *)
LEMMA SystemsStay ==
  ASSUME [Next]_vars
  PROVE  systems \subseteq systems'
BY DEF Next, vars, hub, Mint, Expire, CheckToken, Redeem, Enroll, WritesKey, Posts, Reads, Loads,
   Saves, Killed, Boots, StartsSave, DaemonSaves, Stops

(* Every step keeps the keys in agreement.                                 *)
LEMMA StepKeys ==
  ASSUME TypeInv, KeyInv, [Next]_vars
  PROVE  KeyInv'
<1> USE DEF TypeInv, EnrollOK, HubOK, KeyInv, hub, enroll, disk
<1>1. CASE UNCHANGED vars
  BY <1>1 DEF vars
<1>2. ASSUME NEW t \in Tokens, Mint(t) \/ Expire(t) PROVE KeyInv'
  BY <1>2 DEF Mint, Expire
<1>3. ASSUME NEW c \in Clis, CheckToken(c) \/ Redeem(c) PROVE KeyInv'
  <2>1. CASE CheckToken(c)
    BY <2>1 DEF CheckToken, Answers
  <2>2. CASE Redeem(c)
    <3>1. post[c] # "none" /\ pub[c] = keyFile /\ keyFile \in Clis
      BY <2>2, NoneAssumption DEF Redeem, Answers
    <3>2. /\ systems' \subseteq systems \cup {c} /\ sysKey'[c] = keyFile
          /\ \A d \in Clis \ {c} : sysKey'[d] = sysKey[d] /\ post'[d] = post[d]
          /\ UNCHANGED <<enroll, disk>>
      BY <2>2, <3>1 DEF Redeem, Answers
    <3>3. QED BY <3>1, <3>2
  <2>3. QED BY <1>3, <2>1, <2>2
<1>4. ASSUME NEW c \in Clis, Enroll(c) PROVE KeyInv'
  <2>1. \A d \in Clis : ~Active(cli[d])
    BY <1>4 DEF Enroll, Active
  <2>2. CASE HasKey /\ keyFile # "torn" /\ Goes(c, "idle", "post")
             /\ pub' = [pub EXCEPT ![c] = keyFile] /\ UNCHANGED keyFile
    <3>1. keyFile \in Clis /\ keyFile # None
      BY <2>2, NoneAssumption DEF HasKey
    <3>2. QED BY <1>4, <2>1, <2>2, <3>1 DEF Enroll, Goes, Active
  <2>3. CASE HasKey /\ keyFile = "torn" /\ Goes(c, "idle", "failed") /\ UNCHANGED <<pub, keyFile>>
    BY <1>4, <2>3 DEF Enroll, Goes
  <2>4. CASE ~HasKey /\ Goes(c, "idle", "write") /\ keyFile' = "torn" /\ UNCHANGED pub
    <3>1. keyFile \notin Clis
      BY <2>4, ContentAssumption DEF HasKey
    <3>2. systems = {} /\ \A d \in Clis : pub[d] = None
      BY <3>1
    <3>3. QED BY <1>4, <2>1, <2>4, <3>2 DEF Enroll, Goes, Active
  <2>5. QED BY <1>4, <2>2, <2>3, <2>4 DEF Enroll
<1>5. ASSUME NEW c \in Clis, WritesKey(c) PROVE KeyInv'
  <2>1. keyFile \notin Clis /\ \A d \in Clis \ {c} : ~Active(cli[d])
    BY <1>5, ContentAssumption DEF WritesKey, Goes, OneCommand, Active
  <2>2. systems = {} /\ \A d \in Clis : pub[d] = None
    BY <2>1
  <2>3. QED BY <1>5, <2>1, <2>2, NoneAssumption DEF WritesKey, Goes, Active
<1>6. ASSUME NEW c \in Clis, Posts(c) \/ Reads(c) \/ Loads(c) \/ Saves(c) \/ Killed(c) PROVE KeyInv'
  BY <1>6 DEF Posts, Reads, Loads, Saves, Killed, Goes, Answers, Opens, Fills, Renames, CannotRename
<1>7. CASE Boots \/ StartsSave \/ DaemonSaves \/ Stops
  BY <1>7 DEF Boots, StartsSave, DaemonSaves, Stops, Opens, Fills, Renames, CannotRename
<1>8. QED
  BY <1>1, <1>2, <1>3, <1>4, <1>5, <1>6, <1>7 DEF Next

(* Saving an id that is accounted for, and renaming, leave only such ids   *)
(* in the files.                                                           *)
LEMMA FilesNameSystems ==
  ASSUME DiskOK, UNCHANGED <<systems, blank>>, \A f \in {"state", "tmp"} : Accounted(file[f]),
         \/ \E s \in Savers : Opens(s)
         \/ \E s \in Savers, sys \in Clis \cup {"unbound"} : Accounted(sys) /\ Fills(s, sys)
         \/ Renames
         \/ CannotRename
  PROVE  \A f \in {"state", "tmp"} : Accounted(file[f])'
<1> USE ContentAssumption DEF DiskOK, Accounted
<1>1. CASE \E s \in Savers : Opens(s)
  BY <1>1 DEF Opens, Target
<1>2. ASSUME NEW s \in Savers, NEW sys \in Clis \cup {"unbound"}, Accounted(sys), Fills(s, sys)
      PROVE  \A f \in {"state", "tmp"} : Accounted(file[f])'
  BY <1>2 DEF Fills
<1>3. CASE Renames
  BY <1>3 DEF Renames
<1>4. CASE CannotRename
  BY <1>4 DEF CannotRename, disk
<1>5. QED BY <1>1, <1>2, <1>3, <1>4

(* Every step keeps system ids after their systems.                        *)
LEMMA StepOrigins ==
  ASSUME TypeInv, KeyInv, OriginInv, [Next]_vars
  PROVE  OriginInv'
<1> USE DEF TypeInv, EnrollOK, HubOK, OriginInv, hub, enroll, disk
<1>1. CASE UNCHANGED vars
  BY <1>1 DEF vars, Accounted
<1>2. ASSUME NEW t \in Tokens, Mint(t) \/ Expire(t) PROVE OriginInv'
  BY <1>2 DEF Mint, Expire, Accounted
<1>3. ASSUME NEW c \in Clis, CheckToken(c) \/ Redeem(c) PROVE OriginInv'
  BY <1>3 DEF CheckToken, Redeem, Answers, Accounted
<1>4. ASSUME NEW c \in Clis, Enroll(c) \/ WritesKey(c) PROVE OriginInv'
  <2>1. daemon # "down" => keyFile \in Clis
    BY DEF KeyInv
  <2>2. daemon # "down" => UNCHANGED keyFile
    BY <2>1, KeyIsKept
  <2>3. UNCHANGED <<hub, blank, file, daemon, mem>> /\ cli'[c] \notin {"load", "open", "fill", "rename"}
    BY <1>4 DEF Enroll, WritesKey, Goes
  <2>4. \A d \in Clis \ {c} : cli'[d] = cli[d]
    BY <1>4 DEF Enroll, WritesKey, Goes
  <2>5. QED BY <2>2, <2>3, <2>4 DEF Accounted
<1>5. ASSUME NEW c \in Clis, Posts(c) \/ Reads(c) \/ Loads(c) \/ Killed(c) PROVE OriginInv'
  BY <1>5 DEF Posts, Reads, Loads, Killed, Goes, Answers, Accounted
<1>6. ASSUME NEW c \in Clis, Saves(c) PROVE OriginInv'
  <2>1. c \in systems \cup blank
    BY <1>6 DEF Saves, Goes
  <2>2. Accounted(SystemID(c))
    BY <2>1, ContentAssumption DEF SystemID, Accounted
  <2>3. UNCHANGED <<hub, blank, daemon, mem, keyFile>> /\ (cli'[c] \in CliSteps => \A d \in Clis \ {c} : cli'[d] = cli[d])
    BY <1>6 DEF Saves, Goes, Opens, Fills, Renames, CannotRename
  <2>4. \A f \in {"state", "tmp"} : Accounted(file[f])'
    BY <1>6, <2>2, <2>3, FilesNameSystems, SystemIDType DEF Saves, Savers
  <2>5. \A d \in Clis : cli'[d] \in {"load", "open", "fill", "rename"} => d \in systems \cup blank
    BY <1>6, <2>1 DEF Saves, Goes
  <2>6. QED BY <2>3, <2>4, <2>5
<1>7. CASE Boots
  BY <1>7 DEF Boots, KeyInv, Accounted
<1>8. CASE DaemonSaves
  <2>1. mem.sys \in systems /\ UNCHANGED <<hub, enroll, mem, keyFile>> /\ daemon' # "down" /\ daemon # "down"
    BY <1>8 DEF DaemonSaves, Opens, Fills, Renames, CannotRename
  <2>2. mem.sys \in Clis /\ Accounted(mem.sys)
    BY <2>1, ContentAssumption DEF Accounted
  <2>3. \A f \in {"state", "tmp"} : Accounted(file[f])'
    BY <1>8, <2>1, <2>2, FilesNameSystems DEF DaemonSaves, Savers
  <2>4. QED BY <2>1, <2>3
<1>9. CASE StartsSave \/ Stops
  BY <1>9 DEF StartsSave, Stops, Accounted
<1>10. QED
  BY <1>1, <1>2, <1>3, <1>4, <1>5, <1>6, <1>7, <1>8, <1>9 DEF Next

(* The system that state.json names, and the one a running agent uses, is  *)
(* one the hub has, with the public key of this host's key file, after any *)
(* kill and retry: the hub will accept its signature.  State.json names no *)
(* system only when some enroll took a 200 it could not decode for an      *)
(* answer (main.go:90).                                                    *)
THEOREM BindingTheorem == Spec => []BindingIsKnown
<1>1. Init => KeyInv /\ OriginInv
  BY ContentAssumption DEF Init, KeyInv, OriginInv, Accounted
<1>2. TypeInv /\ KeyInv /\ OriginInv /\ [Next]_vars => KeyInv' /\ OriginInv'
  BY StepKeys, StepOrigins
<1>3. KeyInv /\ OriginInv => BindingIsKnown
  BY DEF KeyInv, OriginInv, Accounted, BindingIsKnown
<1>4. QED BY <1>1, <1>2, <1>3, TypeInvariant, PTL DEF Spec

(* The key an enroll has written stays the host's key: every retry and     *)
(* every later enroll finds it, as long as the file can be read            *)
(* (LoadOrCreate).                                                         *)
THEOREM KeyTheorem == Spec => [][keyFile' # keyFile => keyFile \notin Clis]_vars
<1>1. Init => KeyInv
  BY DEF Init, KeyInv
<1>2. TypeInv /\ KeyInv /\ [Next]_vars => KeyInv'
  BY StepKeys
<1>3. TypeInv /\ KeyInv /\ [Next]_vars => [keyFile' # keyFile => keyFile \notin Clis]_vars
  BY KeyIsKept
<1>4. QED BY <1>1, <1>2, <1>3, TypeInvariant, PTL DEF Spec

-----------------------------------------------------------------------------
(* Crashes.                                                                *)

CliSaving == \E c \in Clis : Saving(cli[c])

\* While no two processes have saved at once, the .tmp file is the saver's own:
\* truncated while it fills it, whole when it renames it.
WholeInv ==
  ~shared =>
    /\ file["state"] # "torn"
    /\ ~(CliSaving /\ Saving(daemon))
    /\ \A s \in Savers : fd[s] # "state"
    /\ (daemon = "fill" => fd["daemon"] = "tmp" /\ file["tmp"] = "torn")
    /\ (daemon = "rename" => file["tmp"] # "torn")
    /\ \A c \in Clis : /\ cli[c] = "fill" => fd["cli"] = "tmp" /\ file["tmp"] = "torn"
                       /\ cli[c] = "rename" => file["tmp"] # "torn"

(* The enroll command saves on its own .tmp file.                          *)
LEMMA CliSavesWhole ==
  ASSUME TypeInv, WholeInv, NEW c \in Clis, Saves(c)
  PROVE  WholeInv'
<1> SUFFICES ASSUME ~shared' PROVE WholeInv'
  BY DEF WholeInv
<1> USE ContentAssumption
    DEF TypeInv, EnrollOK, DiskOK, Savers, Saving, CliSaving, WholeInv, Goes
<1>0. \A d \in Clis \ {c} : ~Active(cli[d]) /\ cli'[d] = cli[d]
  BY DEF Saves, OneCommand, Active
<1>1. CASE Goes(c, "open", "fill") /\ Opens("cli")
  BY <1>0, <1>1 DEF Saves, Opens, Target, Active
<1>2. CASE Goes(c, "fill", "rename") /\ Fills("cli", SystemID(c))
  BY <1>0, <1>2, SystemIDType DEF Saves, Fills, Closes, Active
<1>3. CASE Goes(c, "rename", "done") /\ Renames
  <2>1. fd["cli"] = "none"
    BY <1>0, <1>3 DEF OpenFiles, Active
  <2>2. QED BY <1>0, <1>3, <2>1 DEF Saves, Renames, OpenFiles, Active
<1>4. CASE Goes(c, "rename", "failed") /\ CannotRename
  BY <1>0, <1>4 DEF Saves, CannotRename, disk, Active
<1>5. QED BY <1>1, <1>2, <1>3, <1>4 DEF Saves

(* So does the agent.                                                      *)
LEMMA DaemonSavesWhole ==
  ASSUME TypeInv, WholeInv, DaemonSaves
  PROVE  WholeInv'
<1> SUFFICES ASSUME ~shared' PROVE WholeInv'
  BY DEF WholeInv
<1> USE ContentAssumption
    DEF TypeInv, EnrollOK, DiskOK, AgentOK, Savers, Saving, CliSaving, WholeInv, enroll
<1>1. CASE daemon = "open" /\ daemon' = "fill" /\ Opens("daemon")
  <2>1. ~CliSaving /\ UNCHANGED enroll
    <3>1. ~shared' /\ UNCHANGED <<cli, token, pub, blank>>
      BY DEF DaemonSaves
    <3>2. shared' = (shared \/ \E o \in Savers \ {"daemon"} :
                      IF o = "daemon" THEN Saving(daemon) ELSE \E c \in Clis : Saving(cli[c]))
      BY <1>1, Zenon DEF Opens
    <3>3. "cli" \in Savers \ {"daemon"} /\ "cli" # "daemon"
      OBVIOUS
    <3>4. QED BY <3>1, <3>2, <3>3
  <2>2. file' = [file EXCEPT !["tmp"] = "torn"] /\ fd' = [fd EXCEPT !["daemon"] = "tmp"] /\ ~shared
    BY <1>1 DEF Opens, Target
  <2>3. QED BY <1>1, <2>1, <2>2
<1>2. CASE daemon = "fill" /\ daemon' = "rename" /\ Fills("daemon", mem.sys)
  <2>1. UNCHANGED <<enroll, shared>> /\ ~CliSaving /\ fd["daemon"] = "tmp" /\ file["tmp"] = "torn"
    BY <1>2 DEF DaemonSaves, Fills
  <2>2. file' = [file EXCEPT !["tmp"] = mem.sys] /\ fd' = [fd EXCEPT !["daemon"] = "none"]
    BY <1>2, <2>1 DEF Fills, Closes
  <2>3. mem.sys # "torn"
    BY <1>2
  <2>4. QED BY <1>2, <2>1, <2>2, <2>3
<1>3. CASE daemon = "rename" /\ daemon' = "up" /\ Renames
  BY <1>3 DEF DaemonSaves, Renames, OpenFiles
<1>4. CASE daemon = "rename" /\ daemon' = "up" /\ CannotRename
  BY <1>4 DEF DaemonSaves, CannotRename, disk
<1>5. QED BY <1>1, <1>2, <1>3, <1>4 DEF DaemonSaves

(* A crash never leaves a state.json that does not parse, as long as the   *)
(* enroll command and the agent do not save at the same time.              *)
THEOREM WholeTheorem == Spec => []StateIsWhole
<1>1. Init => WholeInv
  BY DEF Init, WholeInv, CliSaving, Saving, Savers
<1>2. TypeInv /\ WholeInv /\ [Next]_vars => WholeInv'
  <2> SUFFICES ASSUME TypeInv, WholeInv, [Next]_vars PROVE WholeInv'
    OBVIOUS
  <2> USE DEF WholeInv, CliSaving, Saving, enroll, disk
  <2>1. CASE UNCHANGED vars
    BY <2>1 DEF vars
  <2>2. ASSUME NEW t \in Tokens, Mint(t) \/ Expire(t) PROVE WholeInv'
    BY <2>2 DEF Mint, Expire
  <2>3. ASSUME NEW c \in Clis, CheckToken(c) \/ Redeem(c) PROVE WholeInv'
    BY <2>3 DEF CheckToken, Redeem
  <2>4. ASSUME NEW c \in Clis, Enroll(c) \/ WritesKey(c) \/ Posts(c) \/ Reads(c) \/ Loads(c)
        PROVE  WholeInv'
    <3>1. UNCHANGED <<file, fd, shared, daemon>>
      BY <2>4 DEF Enroll, WritesKey, Posts, Reads, Loads
    <3>2. \A d \in Clis : cli'[d] \in {"fill", "rename"} => cli'[d] = cli[d]
      BY <2>4 DEF Enroll, WritesKey, Posts, Reads, Loads, Goes, TypeInv, EnrollOK
    <3>3. QED BY <3>1, <3>2
  <2>5. ASSUME NEW c \in Clis, Killed(c) PROVE WholeInv'
    <3>1. \A d \in Clis : cli'[d] \notin {"fill", "rename"}
      BY <2>5 DEF Killed, TypeInv, EnrollOK, OneCommand, Active
    <3>2. /\ UNCHANGED <<file, shared, daemon>> /\ fd'["cli"] = "none"
          /\ fd'["daemon"] = fd["daemon"]
      BY <2>5 DEF Killed, TypeInv, DiskOK, Savers
    <3>3. QED BY <3>1, <3>2 DEF Savers
  <2>6. CASE Stops
    BY <2>6 DEF Stops, TypeInv, DiskOK, Savers
  <2>7. CASE Boots \/ StartsSave
    BY <2>7 DEF Boots, StartsSave
  <2>8. QED
    BY <2>1, <2>2, <2>3, <2>4, <2>5, <2>6, <2>7, CliSavesWhole, DaemonSavesWhole DEF Next
<1>3. WholeInv => StateIsWhole
  BY DEF WholeInv, StateIsWhole
<1>4. QED BY <1>1, <1>2, <1>3, TypeInvariant, PTL DEF Spec
=============================================================================
