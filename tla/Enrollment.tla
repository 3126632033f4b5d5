------------------------------ MODULE Enrollment ----------------------------
(***************************************************************************)
(* How a host gets its binding: the enroll command (agent/main.go), the    *)
(* hub's route that redeems a one-time token (hub/internal/enroll), the    *)
(* host's key file (agent/internal/identity) and state.json, which the     *)
(* command and a running agent both save (agent/internal/appconfig).       *)
(*                                                                         *)
(* An enroll command and its POST share a name, which is also the id of    *)
(* the system the hub makes of it and of the key it would generate.  One   *)
(* command runs at a time; a POST outlives a command that was killed.  The *)
(* service is set up after a first enroll has left a key.  A key file that *)
(* is there can be read: LoadOrCreate would take a read that fails for the *)
(* absence of the file, and write a new key over it.                       *)
(***************************************************************************)
EXTENDS Naturals, FiniteSets

CONSTANTS
  Clis,      \* enroll commands, in all
  Tokens,    \* tokens that can be minted
  None,      \* no system, no token
  MaxSaves,  \* bound: saves of the running agent
  MaxFaults  \* bound: processes killed, failed transactions, broken POSTs

ASSUME NoneAssumption == None \notin Clis \cup Tokens
ASSUME ContentAssumption == {"absent", "torn", "unbound"} \cap Clis = {}
ASSUME BoundAssumption == MaxSaves \in Nat /\ MaxFaults \in Nat

VARIABLES
  minted, expired, used,  \* the tokens of enroll_tokens by state
  systems,   \* the systems on the hub
  sysKey,    \* systems.public_key
  post,      \* hub: each POST: "none", "sent", "checked", "ok" or "error" (answered)
  cli,       \* where each enroll command is
  token,     \* its --token
  pub,       \* the public key it sends
  blank,     \* those that go on with an empty out.SystemID
  keyFile,   \* agent_ed25519.key: "absent", "torn" (does not decode) or a key
  file,      \* state.json and its .tmp: "absent", "torn", "unbound" (no id) or a system id
  fd,        \* the file each process writes to, as named now
  daemon,    \* "down", "up", or the step of its save
  mem,       \* the daemon's d.state.SystemID and d.priv
  shared,    \* history: two processes were saving at once
  bound,     \* history: the system of the last enroll that reported success
  saves, faults

hub    == <<minted, expired, used, systems, sysKey, post>>
enroll == <<cli, token, pub, blank>>
disk   == <<keyFile, file, fd, shared>>
vars   == <<hub, enroll, disk, daemon, mem, bound, saves, faults>>

Savers   == {"cli", "daemon"}
CliSteps == {"idle", "write", "post", "wait", "load", "open", "fill", "rename", "done", "failed"}
Saving(step) == step \in {"fill", "rename"}

\* Every variable stays in its range; nobody but a saver has a file open.
TypeOK ==
  /\ minted \subseteq Tokens /\ expired \subseteq minted /\ used \subseteq minted
  /\ systems \subseteq Clis /\ sysKey \in [Clis -> Clis \cup {None}]
  /\ post \in [Clis -> {"none", "sent", "checked", "ok", "error"}]
  /\ cli \in [Clis -> CliSteps]
  /\ token \in [Clis -> Tokens \cup {None}] /\ pub \in [Clis -> Clis \cup {None}]
  /\ keyFile \in {"absent", "torn"} \cup Clis
  /\ blank \subseteq Clis
  /\ file \in [{"state", "tmp"} -> {"absent", "torn", "unbound"} \cup Clis]
  /\ fd \in [Savers -> {"none", "state", "tmp"}]
  /\ daemon \in {"down", "up", "open", "fill", "rename"}
  /\ fd["daemon"] # "none" => daemon = "fill"
  /\ fd["cli"] # "none" => \E c \in Clis : cli[c] = "fill"
  /\ mem \in [sys : Clis \cup {None}, key : Clis \cup {None}]
  /\ shared \in BOOLEAN /\ bound \in Clis \cup {"unbound", None}
  /\ saves \in 0..MaxSaves /\ faults \in 0..MaxFaults

Init ==
  /\ minted = {} /\ expired = {} /\ used = {}
  /\ systems = {} /\ sysKey = [c \in Clis |-> None] /\ post = [c \in Clis |-> "none"]
  /\ cli = [c \in Clis |-> "idle"]
  /\ token = [c \in Clis |-> None] /\ pub = [c \in Clis |-> None] /\ blank = {}
  /\ keyFile = "absent" /\ file = [f \in {"state", "tmp"} |-> "absent"]
  /\ fd = [s \in Savers |-> "none"]
  /\ daemon = "down" /\ mem = [sys |-> None, key |-> None]
  /\ shared = FALSE /\ bound = None /\ saves = 0 /\ faults = 0

Fault == faults < MaxFaults /\ faults' = faults + 1

Goes(c, from, to) == cli[c] = from /\ cli' = [cli EXCEPT ![c] = to]
Answers(c, from, to) == post[c] = from /\ post' = [post EXCEPT ![c] = to]

-----------------------------------------------------------------------------
(* The hub.                                                                *)

Mint(t) ==
  /\ minted' = minted \cup {t} /\ t \notin minted
  /\ UNCHANGED <<expired, used, systems, sysKey, post, enroll, disk, daemon, mem, bound, saves, faults>>

Expire(t) ==
  /\ t \in minted \ expired /\ expired' = expired \cup {t}
  /\ UNCHANGED <<minted, used, systems, sysKey, post, enroll, disk, daemon, mem, bound, saves, faults>>

\* The token's record is read before the transaction.
CheckToken(c) ==
  /\ Answers(c, "sent", IF token[c] \in minted \ (used \cup expired) THEN "checked" ELSE "error")
  /\ UNCHANGED <<minted, expired, used, systems, sysKey, enroll, disk, daemon, mem, bound, saves, faults>>

\* The system is made and the token marked used, or neither (sysKey is read
\* only of systems that exist).
Redeem(c) ==
  /\ \/ /\ Answers(c, "checked", "ok")
        /\ systems' = systems \cup {c} /\ used' = used \cup {token[c]}
        /\ UNCHANGED faults
     \/ Fault /\ Answers(c, "checked", "error") /\ UNCHANGED <<systems, used>>
  /\ sysKey' = [sysKey EXCEPT ![c] = pub[c]]
  /\ UNCHANGED <<minted, expired, enroll, disk, daemon, mem, bound, saves>>

-----------------------------------------------------------------------------
(* Store.Save: write the .tmp file, rename it.  A writer keeps the file it *)
(* opened when somebody else renames it.                                   *)

\* MUTANT: state.json is written in place.
InPlace == "state"

\* The file that Save opens.
Target == "tmp"

\* WriteFile truncates the file.
Opens(s) ==
  /\ file' = [file EXCEPT ![Target] = "torn"]
  /\ fd' = [fd EXCEPT ![s] = Target]
  /\ shared' = (shared \/ \E o \in Savers \ {s} : IF o = "daemon" THEN Saving(daemon) ELSE \E c \in Clis : Saving(cli[c]))
  /\ UNCHANGED keyFile

\* MUTANT: the file is not closed.
LeavesOpen(s) == fd

\* WriteFile closes the file.
Closes(s) == [fd EXCEPT ![s] = "none"]

\* On top of what another process has written meanwhile, the result may be
\* a mixture.
Fills(s, sys) ==
  /\ IF fd[s] = "none"
       THEN UNCHANGED file
       ELSE \E content \in {sys} \cup (IF file[fd[s]] = "torn" THEN {} ELSE {"torn"}) :
              file' = [file EXCEPT ![fd[s]] = content]
  /\ fd' = Closes(s)
  /\ UNCHANGED <<keyFile, shared>>

Renames ==
  /\ file["tmp"] # "absent"
  /\ file' = [state |-> file["tmp"], tmp |-> "absent"]
  /\ fd' = [s \in Savers |-> IF fd[s] = "tmp" THEN "state" ELSE "none"]
  /\ UNCHANGED <<keyFile, shared>>
CannotRename == file["tmp"] = "absent" /\ UNCHANGED disk

-----------------------------------------------------------------------------
(* The enroll command.                                                     *)

\* MUTANT: a key is generated at every enroll.
NeverHasKey == FALSE

HasKey == keyFile # "absent"

\* LoadOrCreate: a key that does not decode is an error, and stays.
Enroll(c) ==
  /\ \A o \in Clis : cli[o] \in {"idle", "done", "failed"}
  /\ \E t \in minted : token' = [token EXCEPT ![c] = t]
  /\ \/ /\ HasKey /\ keyFile # "torn" /\ Goes(c, "idle", "post")
        /\ pub' = [pub EXCEPT ![c] = keyFile] /\ UNCHANGED keyFile
     \/ /\ HasKey /\ keyFile = "torn" /\ Goes(c, "idle", "failed")
        /\ UNCHANGED <<pub, keyFile>>
     \/ /\ ~HasKey /\ Goes(c, "idle", "write")
        /\ keyFile' = "torn" /\ UNCHANGED pub
  /\ UNCHANGED <<hub, blank, file, fd, shared, daemon, mem, bound, saves, faults>>

WritesKey(c) ==
  /\ Goes(c, "write", "post")
  /\ keyFile' = c /\ pub' = [pub EXCEPT ![c] = c]
  /\ UNCHANGED <<hub, token, blank, file, fd, shared, daemon, mem, bound, saves, faults>>

Posts(c) ==
  /\ Goes(c, "post", "wait") /\ Answers(c, "none", "sent")
  /\ UNCHANGED <<minted, expired, used, systems, sysKey, token, pub, blank, disk, daemon, mem, bound, saves, faults>>

\* The answer arrives, or the POST breaks while the handler goes on.  A 200
\* whose body does not decode, the hub's cut short or that of a server that is
\* no hub, is not an error: out.SystemID stays empty.
Reads(c) ==
  /\ \/ post[c] = "ok" /\ Goes(c, "wait", "load") /\ UNCHANGED <<blank, faults>>
     \/ post[c] = "error" /\ Goes(c, "wait", "failed") /\ UNCHANGED <<blank, faults>>
     \/ Fault /\ Goes(c, "wait", "failed") /\ UNCHANGED blank
     \/ Fault /\ Goes(c, "wait", "load") /\ blank' = blank \cup {c}
  /\ UNCHANGED <<hub, token, pub, disk, daemon, mem, bound, saves>>

\* A corrupt state.json is an error after the token has been spent.
Loads(c) ==
  /\ Goes(c, "load", IF file["state"] = "torn" THEN "failed" ELSE "open")
  /\ UNCHANGED <<hub, token, pub, blank, disk, daemon, mem, bound, saves, faults>>

\* out.SystemID.
SystemID(c) == IF c \in blank THEN "unbound" ELSE c

\* The binding that was there goes, whatever the answer held.
Saves(c) ==
  /\ \/ Goes(c, "open", "fill") /\ Opens("cli") /\ UNCHANGED bound
     \/ Goes(c, "fill", "rename") /\ Fills("cli", SystemID(c)) /\ UNCHANGED bound
     \/ Goes(c, "rename", "done") /\ Renames /\ bound' = SystemID(c)
     \/ Goes(c, "rename", "failed") /\ CannotRename /\ UNCHANGED bound
  /\ UNCHANGED <<hub, token, pub, blank, daemon, mem, saves, faults>>

Killed(c) ==
  /\ Fault /\ cli[c] \notin {"idle", "done", "failed"}
  /\ cli' = [cli EXCEPT ![c] = "failed"] /\ fd' = [fd EXCEPT !["cli"] = "none"]
  /\ UNCHANGED <<hub, token, pub, blank, keyFile, file, shared, daemon, mem, bound, saves>>

-----------------------------------------------------------------------------
(* The running agent.                                                      *)

\* cmdRun: it exits when the key or state.json does not parse, or names no
\* system.
Boots ==
  /\ daemon = "down" /\ keyFile \in Clis /\ file["state"] \in Clis
  /\ mem' = [sys |-> file["state"], key |-> keyFile]
  /\ daemon' = "open" /\ saves < MaxSaves /\ saves' = saves + 1
  /\ UNCHANGED <<hub, enroll, disk, bound, faults>>

\* A change of its apps: the whole of d.state is saved, the binding it
\* loaded at boot included.
StartsSave ==
  /\ daemon = "up" /\ daemon' = "open"
  /\ saves < MaxSaves /\ saves' = saves + 1
  /\ UNCHANGED <<hub, enroll, disk, mem, bound, faults>>

DaemonSaves ==
  /\ \/ daemon = "open"   /\ daemon' = "fill"   /\ Opens("daemon")
     \/ daemon = "fill"   /\ daemon' = "rename" /\ Fills("daemon", mem.sys)
     \/ daemon = "rename" /\ daemon' = "up"     /\ (Renames \/ CannotRename)
  /\ UNCHANGED <<hub, enroll, mem, bound, saves, faults>>

\* The service is stopped, or the agent dies.
Stops ==
  /\ daemon # "down" /\ daemon' = "down"
  /\ IF daemon = "up" THEN UNCHANGED faults ELSE Fault
  /\ mem' = [sys |-> None, key |-> None] /\ fd' = [fd EXCEPT !["daemon"] = "none"]
  /\ UNCHANGED <<hub, enroll, keyFile, file, shared, bound, saves>>

Next ==
  \/ \E t \in Tokens : Mint(t) \/ Expire(t)
  \/ \E c \in Clis : \/ CheckToken(c) \/ Redeem(c)
                     \/ Enroll(c) \/ WritesKey(c) \/ Posts(c) \/ Reads(c)
                     \/ Loads(c) \/ Saves(c) \/ Killed(c)
  \/ Boots \/ StartsSave \/ DaemonSaves \/ Stops

Spec == Init /\ [][Next]_vars

-----------------------------------------------------------------------------
(* Properties.                                                             *)

\* The system that state.json names, and the one a running agent uses, is one
\* the hub has, with the public key of this host's key file, after any kill and
\* retry (cmdEnroll, LoadOrCreate): the hub will accept its signature.  Only an
\* enroll that took a 200 it could not decode for an answer (main.go:90) makes
\* a state.json that names no system; it does so over a good binding too.
BindingIsKnown ==
  /\ file["state"] \in Clis => file["state"] \in systems /\ sysKey[file["state"]] = keyFile
  /\ file["state"] = "unbound" => blank # {}
  /\ daemon # "down" => mem.sys \in systems /\ sysKey[mem.sys] = mem.key

\* A crash never leaves a state.json that does not parse, as long as the
\* enroll command and the agent do not save at the same time (Save).
StateIsWhole == ~shared => file["state"] # "torn"

\* scripts/install-agent.sh: "re-enrolling replaces the binding".  Once an
\* enroll has reported success with the system of its answer, state.json names
\* that system, at least if no two saves overlapped.
ReenrollReplaces == bound \in Clis /\ ~shared => file["state"] = bound
=============================================================================
