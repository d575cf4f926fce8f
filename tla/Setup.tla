------------------------------- MODULE Setup -------------------------------
(***************************************************************************)
(* `rfm init` and what starts from it (mirror-cli: main.rs, backup.rs;     *)
(* mirror-core: vault.rs, key.rs; backup-core: Repository::open_or_init):  *)
(* devices agree on a vault under a prefix of the bucket, keep its         *)
(* passphrase, and derive from both the keys under which they mirror one   *)
(* file and back it up.  A vault is known by its salt; salt and passphrase *)
(* determine the keys.                                                     *)
(*                                                                         *)
(* The passes are those of Engine for one path; a device's state database  *)
(* says what its last pass agreed on, not with which prefix.               *)
(***************************************************************************)
EXTENDS Engine

CONSTANTS
    Device, Prefix, Pass,
    MaxVaults,     \* bound: vaults created
    MayOverlap,    \* two devices may run `init` at once
    MayMove        \* `init --reconfigure` may choose another prefix

ASSUME SetupAssumption == MaxVaults \in Nat /\ {MayOverlap, MayMove} \subseteq BOOLEAN

VARIABLES
    vault,      \* vault[x]: the header stored under prefix x
    log,        \* log[x]: what the deltas under x say of the file, and its object's key
    repo,       \* repo[x]: the backup repository's config
    config,     \* config[d]: the prefix in the config file
    passfile,   \* passfile[d]: the saved passphrase
    init,       \* init[d]: where `rfm init` stands
    run,        \* run[d]: the prefix and the keys of a running daemon or command
    opening,    \* opening[d]: where its backup stands with opening the repository
    file, base, \* the file on the device, and its baseline row
    vaults

bucket == <<vault, log, repo>>
device == <<config, passfile>>
root == <<file, base>>
setup_vars == <<bucket, device, init, run, opening, root, vaults>>

None == "none"
ASSUME NoneAssumption == None \notin Prefix \cup Pass

NoVault == [salt |-> 0, pass |-> None]
Version == 1
Gone == [hash |-> NoHash, key |-> NoVault]
Idle == [at |-> "idle"]
NoRun == [prefix |-> None, key |-> NoVault]

(* derive_application_keys. *)
Keys(salt, pass) == [salt |-> salt, pass |-> pass]

SetupInit ==
    /\ vault = [x \in Prefix |-> NoVault]
    /\ log = [x \in Prefix |-> Gone]
    /\ repo = [x \in Prefix |-> NoVault]
    /\ config = [d \in Device |-> None]
    /\ passfile = [d \in Device |-> None]
    /\ init = [d \in Device |-> Idle]
    /\ run = [d \in Device |-> NoRun]
    /\ opening = [d \in Device |-> None]
    /\ file \in [Device -> {NoHash, Version}]
    /\ base = [d \in Device |-> NoHash]
    /\ vaults = 0

-----------------------------------------------------------------------------
(* rfm init. *)

InitStep == UNCHANGED <<log, repo, run, opening, root>>

(* An existing config stays, unless it is to be reconfigured. *)
StartInit(d, x) ==
    /\ init[d] = Idle
    /\ MayOverlap \/ \A e \in Device : init[e] = Idle
    /\ config[d] \in {None, x} \/ MayMove
    /\ config' = [config EXCEPT ![d] = x]
    /\ init' = [init EXCEPT ![d] = [at |-> "load", prefix |-> x]]
    /\ UNCHANGED <<vault, passfile, vaults>> /\ InitStep

LoadVault(d) ==
    /\ init[d].at = "load"
    /\ LET header == vault[init[d].prefix]
       IN  init' = [init EXCEPT ![d] =
              IF header = NoVault THEN [at |-> "create", prefix |-> init[d].prefix]
              ELSE [at |-> "join", header |-> header]]
    /\ UNCHANGED <<vault, device, vaults>> /\ InitStep

verify_passphrase(header, pass) == header.pass = pass

(* The vault exists: the passphrase is checked against it and saved. *)
JoinVault(d, pass) ==
    /\ init[d].at = "join"
    /\ passfile' = IF verify_passphrase(init[d].header, pass)
                   THEN [passfile EXCEPT ![d] = pass] ELSE passfile
    /\ init' = [init EXCEPT ![d] = Idle]
    /\ UNCHANGED <<vault, config, vaults>> /\ InitStep

CreateVault(d, pass) ==
    /\ init[d].at = "create"
    /\ vaults < MaxVaults
    /\ vaults' = vaults + 1
    /\ vault' = [vault EXCEPT ![init[d].prefix] = [salt |-> vaults + 1, pass |-> pass]]
    /\ init' = [init EXCEPT ![d] = [at |-> "save", pass |-> pass]]
    /\ UNCHANGED device /\ InitStep

SavePassphrase(d) ==
    /\ init[d].at = "save"
    /\ passfile' = [passfile EXCEPT ![d] = init[d].pass]
    /\ init' = [init EXCEPT ![d] = Idle]
    /\ UNCHANGED <<vault, config, vaults>> /\ InitStep

(* Killed, or the two passphrases typed do not match. *)
AbortInit(d) ==
    /\ init[d] # Idle
    /\ init' = [init EXCEPT ![d] = Idle]
    /\ UNCHANGED <<vault, device, vaults>> /\ InitStep

-----------------------------------------------------------------------------
(* A command or the daemon. *)

(* resolve_passphrase: from the environment or a prompt, any; else the saved one. *)
resolve_passphrase(d) == Pass \cup ({passfile[d]} \ {None})

(* Faulty variant: keys are derived from whatever passphrase was found. *)
derive_enc_keys_unverified(header, pass) == {Keys(header.salt, pass)}

(* Nothing is derived unless the passphrase opens the vault's key_check. *)
derive_enc_keys(header, pass) ==
    IF header # NoVault /\ verify_passphrase(header, pass) THEN {Keys(header.salt, pass)} ELSE {}

Start(d) ==
    /\ run[d] = NoRun
    /\ config[d] # None /\ vault[config[d]] # NoVault
    /\ \E pass \in resolve_passphrase(d) : \E keys \in derive_enc_keys(vault[config[d]], pass) :
          run' = [run EXCEPT ![d] = [prefix |-> config[d], key |-> keys]]
    /\ UNCHANGED <<bucket, device, init, opening, root, vaults>>

Exit(d) ==
    /\ run[d] # NoRun
    /\ run' = [run EXCEPT ![d] = NoRun]
    /\ opening' = [opening EXCEPT ![d] = None]
    /\ UNCHANGED <<bucket, device, init, root, vaults>>

(* A sync pass that finds something to do.  An object sealed under other keys
   cannot be downloaded. *)
SyncPass(d) ==
    LET x == run[d].prefix
        Kind(k) == run[d] # NoRun /\ reconcile(file[d], base[d], log[x].hash) = k
    IN  /\ \/ /\ Kind("Upload")
              /\ log' = [log EXCEPT ![x] = [hash |-> file[d], key |-> run[d].key]]
              /\ base' = [base EXCEPT ![d] = file[d]]
              /\ file' = file
           \/ /\ Kind("Download") /\ log[x].key = run[d].key
              /\ file' = [file EXCEPT ![d] = log[x].hash]
              /\ base' = [base EXCEPT ![d] = log[x].hash]
              /\ log' = log
           \/ /\ Kind("DeleteLocal")
              /\ file' = [file EXCEPT ![d] = NoHash]
              /\ base' = [base EXCEPT ![d] = NoHash]
              /\ log' = log
        /\ UNCHANGED <<vault, repo, device, init, run, opening, vaults>>

Backup == UNCHANGED <<vault, log, device, init, run, root, vaults>>

(* open_or_init looks for a repository, and init looks once more. *)
OpenRepo(d) ==
    /\ run[d] # NoRun /\ opening[d] \in {None, "absent"}
    /\ repo[run[d].prefix] # NoVault
    /\ opening' = [opening EXCEPT ![d] =
          IF opening[d] = None /\ repo[run[d].prefix] = run[d].key THEN "open" ELSE "failed"]
    /\ repo' = repo /\ Backup

RepoAbsent(d) ==
    /\ run[d] # NoRun /\ opening[d] \in {None, "absent"}
    /\ repo[run[d].prefix] = NoVault
    /\ opening' = [opening EXCEPT ![d] = IF opening[d] = None THEN "absent" ELSE "creating"]
    /\ repo' = repo /\ Backup

CreateRepo(d) ==
    /\ opening[d] = "creating"
    /\ repo' = [repo EXCEPT ![run[d].prefix] = run[d].key]
    /\ opening' = [opening EXCEPT ![d] = "open"]
    /\ Backup

SetupNext ==
    \E d \in Device :
        \/ \E x \in Prefix : StartInit(d, x)
        \/ LoadVault(d) \/ SavePassphrase(d) \/ AbortInit(d)
        \/ \E pass \in Pass : JoinVault(d, pass) \/ CreateVault(d, pass)
        \/ Start(d) \/ Exit(d) \/ SyncPass(d)
        \/ OpenRepo(d) \/ RepoAbsent(d) \/ CreateRepo(d)

SetupSpec == SetupInit /\ [][SetupNext]_setup_vars

-----------------------------------------------------------------------------
(* Properties. *)

VaultKeys(x) == Keys(vault[x].salt, vault[x].pass)

(* Types; the key of a run is drawn from the salt of some vault. *)
SetupTypeOK ==
    /\ \A d \in Device : config[d] \in Prefix \cup {None} /\ passfile[d] \in Pass \cup {None}
    /\ \A d \in Device : run[d] = NoRun \/ (run[d].prefix \in Prefix /\ run[d].key.salt \in 1..vaults)
    /\ \A d \in Device : file[d] \in {NoHash, Version} /\ base[d] \in {NoHash, Version}

(* Whatever is mirrored or backed up under a prefix can be read with that
   prefix's vault and its passphrase, and so by every device that has joined
   it: no device writes under a mistyped passphrase, another vault's, or that
   of a vault which is no more. *)
Readable ==
    \A x \in Prefix :
        /\ log[x] # Gone => log[x].key = VaultKeys(x)
        /\ repo[x] # NoVault => repo[x] = VaultKeys(x)
        /\ \A d \in Device : run[d].prefix = x => run[d].key = VaultKeys(x)

(* What is set up is well formed and can be read (SetupTypeOK, Readable). *)
SetupConsistent == SetupTypeOK /\ Readable

(* Nobody deletes the file, so no device's copy of it goes: to set a device up
   again is no reason to delete what it holds. *)
FilesStay == [][\A d \in Device : file[d] # NoHash => file'[d] # NoHash]_setup_vars
=============================================================================
