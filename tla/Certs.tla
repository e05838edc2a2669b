------------------------------- MODULE Certs --------------------------------
(***************************************************************************)
(* The local CA as fghjd sets it up when it starts (web/ca.rs, the first   *)
(* half of daemon/bootstrap.rs, orchestrator/route_table.rs): a root, a    *)
(* signing CA the root signed, and the sidecars' copy of the signing CA.   *)
(* Each is a certificate and a key in a file of its own, written one after *)
(* the other; fghjd may die between two writes, or in one (Torn).  A pair  *)
(* is known by the number it was minted with.                              *)
(***************************************************************************)
EXTENDS Integers, Sequences, FiniteSets

CONSTANT MaxMints      \* how many pairs may be minted

VARIABLES disk,        \* the files: see NoFiles
          minted,      \* the number of the last pair minted
          mem,         \* what this fghjd has loaded: [root, cert, key]
          stage,       \* how far fghjd has started
          trusted      \* roots in the system's trust store

certVars == <<disk, minted, mem, stage, trusted>>

Missing == 0
Torn == -1
NoCert == [id |-> Missing, by |-> Missing]
TornCert == [id |-> Torn, by |-> Torn]

NoFiles == [rootCert |-> Missing, rootKey |-> Missing, sigCert |-> NoCert, sigKey |-> Missing,
            sigGen |-> 0, copyCert |-> NoCert, copyKey |-> Missing]
(* What an fghjd with other name constraints left: its signing CA is to be replaced. *)
OldFiles == [rootCert |-> 1, rootKey |-> 1, sigCert |-> [id |-> 2, by |-> 1], sigKey |-> 2,
             sigGen |-> 1, copyCert |-> [id |-> 2, by |-> 1], copyKey |-> 2]
signing_generation == 2
NothingLoaded == [root |-> Missing, cert |-> NoCert, key |-> Missing]

(* fghjd's start, in the order of run_control_api. *)
Stages == {"down", "root", "rootKey", "signing", "sigKey", "sigGen", "copy", "copyKey", "trust", "network", "up"}

CertsInit ==
  /\ disk = OldFiles /\ minted = 2 /\ mem = NothingLoaded
  /\ stage = "down" /\ trusted = {1}

(* Writing a file: the whole of it, or fghjd dies in the middle. *)
Wrote(file, contents, next) ==
  disk' = [disk EXCEPT ![file] = contents] /\ stage' = next

Dies(file, torn) == disk' = [disk EXCEPT ![file] = torn] /\ stage' = "down" /\ mem' = NothingLoaded

(* ensure_ca: loads the root when both files are there, whatever they hold; a file *)
(* that does not parse ends this fghjd.                                            *)
HasRoot == disk.rootCert # Missing /\ disk.rootKey # Missing

LoadRoot ==
  /\ stage = "root" /\ HasRoot
  /\ IF disk.rootKey = Torn \/ disk.rootCert = Torn
       THEN stage' = "down" /\ mem' = NothingLoaded
       ELSE stage' = "signing" /\ mem' = [mem EXCEPT !.root = disk.rootCert]
  /\ UNCHANGED <<disk, minted, trusted>>

generate_ca ==
  /\ stage = "root" /\ ~HasRoot /\ minted < MaxMints
  /\ minted' = minted + 1
  /\ \/ Wrote("rootCert", minted + 1, "rootKey") /\ mem' = [mem EXCEPT !.root = minted + 1]
     \/ Dies("rootCert", Torn)
  /\ UNCHANGED trusted

WriteRootKey ==
  /\ stage = "rootKey"
  /\ \/ Wrote("rootKey", mem.root, "signing") /\ UNCHANGED mem
     \/ Dies("rootKey", Torn)
  /\ UNCHANGED <<minted, trusted>>

(* ensure_signing_ca: kept while the generation file names this fghjd's constraints. *)
HasSigning == disk.sigCert # NoCert /\ disk.sigKey # Missing /\ disk.sigGen = signing_generation

LoadSigning ==
  /\ stage = "signing" /\ HasSigning
  /\ IF Torn \in {disk.sigCert.id, disk.sigKey}
       THEN stage' = "down" /\ mem' = NothingLoaded
       ELSE stage' = "copy" /\ mem' = [mem EXCEPT !.cert = disk.sigCert, !.key = disk.sigKey]
  /\ UNCHANGED <<disk, minted, trusted>>

generate_signing_ca_early ==
  /\ stage = "signing" /\ ~HasSigning /\ minted < MaxMints
  /\ minted' = minted + 1
  /\ LET cert == [id |-> minted + 1, by |-> mem.root]
     IN \/ /\ disk' = [disk EXCEPT !.sigCert = cert, !.sigGen = signing_generation] /\ stage' = "sigKey"
           /\ mem' = [mem EXCEPT !.cert = cert, !.key = cert.id]
        \/ Dies("sigCert", TornCert)
  /\ UNCHANGED trusted

generate_signing_ca ==
  /\ stage = "signing" /\ ~HasSigning /\ minted < MaxMints
  /\ minted' = minted + 1
  /\ LET cert == [id |-> minted + 1, by |-> mem.root]
     IN \/ Wrote("sigCert", cert, "sigKey") /\ mem' = [mem EXCEPT !.cert = cert, !.key = cert.id]
        \/ Dies("sigCert", TornCert)
  /\ UNCHANGED trusted

WriteSigningKey ==
  /\ stage = "sigKey"
  /\ \/ Wrote("sigKey", mem.key, "sigGen") /\ UNCHANGED mem
     \/ Dies("sigKey", Torn)
  /\ UNCHANGED <<minted, trusted>>

(* Written last: a crash before it leaves the old generation, which regenerates. *)
WriteGeneration ==
  /\ stage = "sigGen" /\ Wrote("sigGen", signing_generation, "copy")
  /\ UNCHANGED <<mem, minted, trusted>>

(* refresh_sidecar_ca_copy: the files as they are on disk, certificate then key.  Best *)
(* effort: one that cannot be read is only logged.                                     *)
CopySkipped ==
  /\ \/ stage = "copy" /\ disk.sigCert = NoCert
     \/ stage = "copyKey" /\ disk.sigKey = Missing
  /\ stage' = "trust" /\ UNCHANGED <<disk, mem, minted, trusted>>

CopyCert ==
  /\ stage = "copy" /\ disk.sigCert # NoCert
  /\ \/ Wrote("copyCert", disk.sigCert, "copyKey") /\ UNCHANGED mem
     \/ Dies("copyCert", TornCert)
  /\ UNCHANGED <<minted, trusted>>

CopyKey ==
  /\ stage = "copyKey" /\ disk.sigKey # Missing
  /\ \/ Wrote("copyKey", disk.sigKey, "trust") /\ UNCHANGED mem
     \/ Dies("copyKey", Torn)
  /\ UNCHANGED <<minted, trusted>>

(* Best effort: the doctor reports a root that could not be installed. *)
InstallTrust ==
  /\ stage = "trust" /\ stage' = "network"
  /\ trusted' \in {trusted, trusted \cup {mem.root}}
  /\ UNCHANGED <<disk, minted, mem>>

Begin == stage = "down" /\ stage' = "root" /\ mem' = NothingLoaded

Dead == stage' = "down" /\ mem' = NothingLoaded

SetUp ==
  \/ LoadRoot \/ generate_ca \/ WriteRootKey
  \/ LoadSigning \/ generate_signing_ca \/ WriteSigningKey \/ WriteGeneration
  \/ CopyCert \/ CopyKey \/ CopySkipped \/ InstallTrust
=============================================================================
