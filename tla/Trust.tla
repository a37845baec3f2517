-------------------------------- MODULE Trust --------------------------------
(***************************************************************************)
(* Who may sign plugins, and what is run of what was signed: the keys that *)
(* gen-signing-key makes and the file they are trusted in, the signers and *)
(* vendors the database trusts, the signature of a plugin's directory, and *)
(* the loader that checks it in production (internal/runtime/plugins:      *)
(* signing.go, signing_cli.go, host.go; internal/marketplace; the commands *)
(* of cmd/mamusiabtw and the dashboard's scaffold and sign).               *)
(*                                                                         *)
(* Nothing of this is under a lock: each process does one thing, one file  *)
(* or one row at a time, and may be cut or fail between any two steps.     *)
(* There is one plugin directory with two files, the manifest and a script *)
(* that stands for all; a file's content is who wrote it last.  A hash     *)
(* stands for the files it was computed from.                              *)
(***************************************************************************)
EXTENDS Naturals, Sequences

CONSTANTS
    Proc,      \* goroutines and command-line runs, each does one thing
    KeyId,
    Key,       \* key pairs; what is trusted is a public key, what signs a private one
    Shipped,   \* the content of the plugin's files as they were found, ...
    Edited,    \* ... and bound: the one content others give them
    Absent, Torn

File == {"plugin.json", "plugin.lua"}

\* Mutant of Hashed: the manifest is left out, as the signature's own file is.
HashedScripts == <<"plugin.lua">>

\* HashDir reads the files sorted by their paths; a scaffold writes the manifest first.
Hashed == <<"plugin.json", "plugin.lua">>
Written == <<"plugin.json", "plugin.lua">>

ConstantsOK ==
    /\ Absent \notin Key \cup KeyId \cup Proc /\ Torn \notin Key \cup {Absent}
    /\ Shipped \notin Proc \cup {Absent} /\ Edited \notin Proc \cup {Absent, Shipped}
ASSUME TrustAssumption == ConstantsOK

VARIABLES
    proc,
    priv,     \* the private key files, data/keys/<key_id>.key
    file,     \* trusted_keys.json, or Torn while or after a write was cut
    signer,   \* the table trusted_signers
    vendor,   \* the rows of one vendor: whether it is there, and its keys
    made,     \* whether the plugin's directory exists
    dir,      \* its files
    sig,      \* its signature.json
    loaded,   \* the plugin in the host
    writes,   \* history: how often the plugin's files were written
    signed,   \* history: what was signed, with which key
    was,      \* history: what trusted_signers ever had
    lists,    \* history: the names of the keys of each import
    mixed     \* history: the keys of runs of gen-signing-key that were cut or overlapped

trustVars == <<proc, priv, file, signer, vendor, made, dir, sig, loaded, writes, signed, was, lists,
          mixed>>
keyring == <<priv, file, mixed>>
database == <<signer, vendor, was, lists>>
plugin == <<made, dir, sig, loaded, writes, signed>>

Entries == [KeyId -> Key \cup {Absent}]
NoKeys == [k \in KeyId |-> Absent]
NoFiles == [f \in File |-> Absent]
Files == [File -> Proc \cup {Shipped, Edited, Absent}]
Signature == [id : KeyId, key : Key, files : Files, since : Nat]

\* The place of a process and its locals: the name and the key it makes or signs with, the
\* keys it read and those of an import that are left, the files it read and those that are
\* left, the manifest and the signature it goes by; since counts the writes, before is
\* signer, as it began.
Work == [at : {"idle", "key", "read", "write", "fill", "import", "vendor", "make", "put", "sign",
               "keys", "manifest", "find", "check", "run", "done"},
         id : KeyId \cup {Absent}, key : Key \cup {Absent}, keys : Entries, left : SUBSET KeyId,
         got : Files, todo : Seq(File), manifest : Proc \cup {Shipped, Edited, Absent},
         sig : Signature \cup {Absent}, since : Nat, before : Entries]

\* A process before it does anything.
Fresh == [at |-> "idle", id |-> Absent, key |-> Absent, keys |-> NoKeys, left |-> {},
          got |-> NoFiles, todo |-> <<>>, manifest |-> Absent, sig |-> Absent, since |-> 0,
          before |-> NoKeys]

TrustTypeOK ==
    /\ proc \in [Proc -> Work]
    /\ priv \in [KeyId -> Key \cup {Absent, Torn}]
    /\ file \in Entries \cup {Torn}
    /\ signer \in Entries
    /\ vendor \in [there : BOOLEAN, keys : SUBSET KeyId]
    /\ made \in BOOLEAN /\ dir \in Files
    /\ sig \in Signature \cup {Absent}
    /\ writes \in Nat

\* Where nothing was done yet, or where a key was made before and a plugin is there.
TrustInit ==
    /\ proc = [p \in Proc |-> Fresh]
    /\ priv \in {NoKeys} \cup {[NoKeys EXCEPT ![k] = key] : k \in KeyId, key \in Key}
    /\ file = priv /\ signer = NoKeys
    /\ vendor = [there |-> FALSE, keys |-> {}]
    /\ made = (priv # NoKeys)
    /\ dir = IF made THEN [f \in File |-> Shipped] ELSE NoFiles
    /\ sig = Absent /\ loaded = Absent
    /\ writes = 0 /\ signed = {} /\ was = {} /\ lists = {} /\ mixed = {}

Over == [Fresh EXCEPT !.at = "done"]
Starts(p, new) == proc[p].at = "idle" /\ proc' = [proc EXCEPT ![p] = new]
Ends(p) == proc' = [proc EXCEPT ![p] = Over]
Goes(p, at) == proc' = [proc EXCEPT ![p].at = at]

-----------------------------------------------------------------------------
(* gen-signing-key.                                                        *)

Generating(p) == proc[p].at \in {"key", "read", "write", "fill"}

\* GenerateEd25519Key: a pair nobody had before.
Generate(p, k, key) ==
    /\ \A q \in Proc : proc[q].key # key
    /\ \A j \in KeyId : key \notin {signer[j], priv[j]}
    /\ Starts(p, [Fresh EXCEPT !.at = "key", !.id = k, !.key = key])
    /\ mixed' = mixed \cup (LET others == {proc[q].id : q \in {r \in Proc : Generating(r)}}
                            IN IF others = {} THEN {} ELSE others \cup {k})
    /\ UNCHANGED <<priv, file, database, plugin>>

\* WriteEd25519PrivateKeyFile, over a key that was there.
WriteKey(p) ==
    /\ proc[p].at = "key"
    /\ priv' = [priv EXCEPT ![proc[p].id] = proc[p].key]
    /\ Goes(p, "read")
    /\ UNCHANGED <<file, mixed, database, plugin>>

\* UpsertTrustedKeyFile reads the file, which must parse, ...
ReadFile(p) ==
    /\ proc[p].at = "read" /\ file # Torn
    /\ proc' = [proc EXCEPT ![p].at = "write", ![p].keys = file]
    /\ UNCHANGED <<keyring, database, plugin>>

\* Mutant of Upserted: only the new key is written.
UpsertedAlone(p) == [NoKeys EXCEPT ![proc[p].id] = proc[p].key]

Upserted(p) == [proc[p].keys EXCEPT ![proc[p].id] = proc[p].key]

\* ... and writes it: os.WriteFile empties it first, and over what another run
\* wrote since then a shorter text leaves the rest of the longer one.
Truncate(p) ==
    /\ proc[p].at = "write"
    /\ file' = Torn
    /\ Goes(p, "fill")
    /\ UNCHANGED <<priv, mixed, database, plugin>>
Fill(p) ==
    /\ proc[p].at = "fill"
    /\ file' \in {Upserted(p)} \cup (IF file = Torn THEN {} ELSE {Torn})
    /\ Ends(p)
    /\ UNCHANGED <<priv, mixed, database, plugin>>

-----------------------------------------------------------------------------
(* Trust in the database.                                                  *)

\* PutTrustedSigner.
Puts(k, key) ==
    /\ signer' = [signer EXCEPT ![k] = key]
    /\ was' = was \cup {<<k, key>>}

\* TrustSigner, of any public key the owner was given.
TrustSigner(p, k, key) ==
    /\ Starts(p, Over)
    /\ Puts(k, key)
    /\ UNCHANGED <<vendor, lists, keyring, plugin>>

Names(keys) == {k \in KeyId : keys[k] # Absent}

\* TrustVendor: the keys of a file, of the owner's or of a source's checkout.
Import(p, keys) ==
    /\ Starts(p, [Fresh EXCEPT !.at = "import", !.keys = keys, !.left = Names(keys)])
    /\ lists' = lists \cup {Names(keys)}
    /\ UNCHANGED <<signer, vendor, was, keyring, plugin>>

\* In any order, one row each.
PutSigner(p, k) ==
    /\ proc[p].at = "import" /\ k \in proc[p].left
    /\ Puts(k, proc[p].keys[k])
    /\ proc' = [proc EXCEPT ![p].left = @ \ {k}]
    /\ UNCHANGED <<vendor, lists, keyring, plugin>>

\* Mutants of Imported and Replaced: the vendor is written before its signers; its
\* keys are added to those it had.
ImportedAny(p) == TRUE
ReplacedNot(p) == vendor.keys \cup Names(proc[p].keys)

Imported(p) == proc[p].left = {}
\* ReplaceTrustedVendorKeys, in one transaction.
Replaced(p) == Names(proc[p].keys)

PutVendor(p) ==
    /\ proc[p].at = "import" /\ Imported(p)
    /\ vendor' = [vendor EXCEPT !.there = TRUE]
    /\ Goes(p, "vendor")
    /\ UNCHANGED <<signer, was, lists, keyring, plugin>>
ReplaceKeys(p) ==
    /\ proc[p].at = "vendor"
    /\ vendor' = [vendor EXCEPT !.keys = Replaced(p)]
    /\ Ends(p)
    /\ UNCHANGED <<signer, was, lists, keyring, plugin>>

-----------------------------------------------------------------------------
(* The plugin's directory: ScaffoldPlugin, SignPlugin and sign-plugin.     *)

Signs(k) == priv[k] \in Key
Signing(new, k) == [new EXCEPT !.at = "sign", !.id = k, !.key = priv[k], !.todo = Hashed,
                               !.since = writes]

\* There is no such directory.
Scaffold(p) ==
    /\ ~made
    /\ Starts(p, [Fresh EXCEPT !.at = "make"])
    /\ UNCHANGED <<keyring, database, plugin>>
MakeDir(p) ==
    /\ proc[p].at = "make"
    /\ made' = TRUE
    /\ proc' = [proc EXCEPT ![p].at = "put", ![p].todo = Written]
    /\ UNCHANGED <<dir, sig, loaded, writes, signed, keyring, database>>
PutFile(p) ==
    /\ proc[p].at = "put" /\ proc[p].todo # <<>>
    /\ dir' = [dir EXCEPT ![Head(proc[p].todo)] = p]
    /\ writes' = writes + 1
    /\ proc' = [proc EXCEPT ![p].todo = Tail(@)]
    /\ UNCHANGED <<made, sig, loaded, signed, keyring, database>>

\* After the last file: signed if that was asked for and a key is configured.
PutDone(p) ==
    /\ proc[p].at = "put" /\ proc[p].todo = <<>>
    /\ \/ Ends(p)
       \/ \E k \in KeyId : Signs(k) /\ proc' = [proc EXCEPT ![p] = Signing(@, k)]
    /\ UNCHANGED <<keyring, database, plugin>>

Sign(p, k) ==
    /\ dir["plugin.json"] # Absent
    /\ Signs(k)
    /\ Starts(p, Signing(Fresh, k))
    /\ UNCHANGED <<keyring, database, plugin>>

\* HashDir, for a signature or for its check: one file after the other.
HashFile(p) ==
    /\ proc[p].at \in {"sign", "check"} /\ proc[p].todo # <<>>
    /\ proc' = [proc EXCEPT ![p].todo = Tail(@),
                            ![p].got = [@ EXCEPT ![Head(proc[p].todo)] = dir[Head(proc[p].todo)]]]
    /\ UNCHANGED <<keyring, database, plugin>>

\* Mutant of Hash: of the directory's listing, not of what was read.
HashNames(p) == [f \in File |-> IF proc[p].got[f] = Absent THEN Absent ELSE Edited]

Hash(p) == proc[p].got

WriteSignature(p) ==
    /\ proc[p].at = "sign" /\ proc[p].todo = <<>>
    /\ sig' = [id |-> proc[p].id, key |-> proc[p].key, files |-> Hash(p), since |-> proc[p].since]
    /\ signed' = signed \cup {<<Hash(p), proc[p].key>>}
    /\ Ends(p)
    /\ UNCHANGED <<made, dir, loaded, writes, keyring, database>>

\* Anyone who can write there changes a file.
Edit(f) ==
    /\ dir[f] \notin {Absent, Edited}
    /\ dir' = [dir EXCEPT ![f] = Edited]
    /\ writes' = writes + 1
    /\ UNCHANGED <<made, sig, loaded, signed, proc, keyring, database>>

-----------------------------------------------------------------------------
(* Loading in production: LoadAll and loadOne.                             *)

\* LoadTrustedKeys reads the file, which must parse, ...
BeginLoad(p) ==
    /\ file # Torn
    /\ Starts(p, [Fresh EXCEPT !.at = "keys", !.keys = file, !.before = signer])
    /\ UNCHANGED <<keyring, database, plugin>>

\* Mutant of Trusted: the file is copied last.
TrustedFileLast(p) ==
    [k \in KeyId |-> IF proc[p].keys[k] # Absent THEN proc[p].keys[k] ELSE signer[k]]

\* ... and the signers, which replace the file's keys of the same name.
Trusted(p) == [k \in KeyId |-> IF signer[k] # Absent THEN signer[k] ELSE proc[p].keys[k]]

ReadSigners(p) ==
    /\ proc[p].at = "keys"
    /\ proc' = [proc EXCEPT ![p].at = "manifest", ![p].keys = Trusted(p)]
    /\ UNCHANGED <<keyring, database, plugin>>

\* loadOne reads plugin.json first, and goes by that copy to its end: it has the
\* identifier, the permissions, the commands, events and jobs.
ReadManifest(p) ==
    /\ proc[p].at = "manifest"
    /\ dir["plugin.json"] # Absent
    /\ proc' = [proc EXCEPT ![p].at = "find", ![p].manifest = dir["plugin.json"],
                            ![p].since = writes]
    /\ UNCHANGED <<keyring, database, plugin>>

\* ReadSignature, before the files are hashed.
ReadSignature(p) ==
    /\ proc[p].at = "find"
    /\ sig # Absent
    /\ proc' = [proc EXCEPT ![p].at = "check", ![p].sig = sig, ![p].todo = Hashed]
    /\ UNCHANGED <<keyring, database, plugin>>

\* VerifyDirSignature.
Verified(p) ==
    /\ proc[p].keys[proc[p].sig.id] = proc[p].sig.key
    /\ proc[p].sig.files = Hash(p)

Verify(p) ==
    /\ proc[p].at = "check" /\ proc[p].todo = <<>>
    /\ Verified(p)
    /\ Goes(p, "run")
    /\ UNCHANGED <<keyring, database, plugin>>

\* NewFromFile reads the script, and the script what it requires, anew; the manifest
\* is the one read before the check.
RunPlugin(p) ==
    /\ proc[p].at = "run" /\ dir["plugin.lua"] # Absent
    /\ loaded' = [files |-> [dir EXCEPT !["plugin.json"] = proc[p].manifest],
                  id |-> proc[p].sig.id, key |-> proc[p].sig.key,
                  before |-> proc[p].before, calm |-> writes = proc[p].since]
    /\ Ends(p)
    /\ UNCHANGED <<made, dir, sig, writes, signed, keyring, database>>

-----------------------------------------------------------------------------
\* An error at any step, or the end of the process; a write of the key may be cut.
Stops(p) ==
    /\ proc[p].at \notin {"idle", "done"}
    /\ Ends(p)
    /\ priv' \in {priv} \cup (IF proc[p].at = "key" THEN {[priv EXCEPT ![proc[p].id] = Torn]}
                              ELSE {})
    /\ mixed' = IF Generating(p) THEN mixed \cup {proc[p].id} ELSE mixed
    /\ UNCHANGED <<file, database, plugin>>

Step(p) ==
    \/ \E k \in KeyId, key \in Key : Generate(p, k, key) \/ TrustSigner(p, k, key)
    \/ WriteKey(p) \/ ReadFile(p) \/ Truncate(p) \/ Fill(p)
    \/ \E keys \in Entries \ {NoKeys} : Import(p, keys)
    \/ \E k \in KeyId : PutSigner(p, k) \/ Sign(p, k)
    \/ PutVendor(p) \/ ReplaceKeys(p)
    \/ Scaffold(p) \/ MakeDir(p) \/ PutFile(p) \/ PutDone(p) \/ HashFile(p) \/ WriteSignature(p)
    \/ BeginLoad(p) \/ ReadSigners(p) \/ ReadManifest(p) \/ ReadSignature(p) \/ Verify(p)
    \/ RunPlugin(p)
    \/ Stops(p)

TrustNext == (\E p \in Proc : Step(p)) \/ (\E f \in File : Edit(f))

TrustSpec == TrustInit /\ [][TrustNext]_trustVars

-----------------------------------------------------------------------------
(* Properties.                                                             *)

\* What production runs, manifest and scripts, somebody signed as it is, with the
\* key the loader trusted, although signing and loading read one file after the
\* other.  The exception are writes while it loads: the manifest is read before the
\* check and the scripts after it, and neither is what the check read.
RunsWhatWasSigned ==
    loaded # Absent /\ loaded.calm => <<loaded.files, loaded.key>> \in signed

\* Once the database had a signer when a load began, a key that only the file has
\* under that name, an older one, does not get a plugin loaded.
ReplacedKeyRefused ==
    loaded # Absent => loaded.before[loaded.id] = Absent \/ <<loaded.id, loaded.key>> \in was

\* The public key of a private key file is trusted in the file, unless a run of
\* gen-signing-key for that name was cut or overlapped another: later runs keep it.
KeyFilesTrusted ==
    file # Torn => \A k \in KeyId :
        priv[k] # Absent /\ k \notin mixed /\ (\A p \in Proc : Generating(p) => proc[p].id # k)
            => file[k] = priv[k]

\* Every key listed for a vendor is a trusted signer and the vendor is known,
\* whatever import failed in the middle or overlapped another.
VendorKeysTrusted ==
    vendor.keys # {} => vendor.there /\ \A k \in vendor.keys : signer[k] # Absent

\* The keys listed for a vendor are those of one import, never of two.
VendorWhole == vendor.keys # {} => vendor.keys \in lists

\* A signature is of the files that are there, unless one was written since its
\* signing began to read them.
SignatureMatches ==
    sig # Absent /\ sig.since = writes => sig.files = dir

\* The signature beside a plugin and what is run of it are of files somebody signed
\* (SignDir, VerifyDirSignature, loadOne), whatever is written meanwhile.
SignaturesHold == RunsWhatWasSigned /\ SignatureMatches

\* The two places a key is trusted in, the file and the database, agree with what
\* was last decided about its name (LoadTrustedKeys, UpsertTrustedKeyFile).
KeysHold == ReplacedKeyRefused /\ KeyFilesTrusted

\* What is known of a vendor is one import in full (TrustVendor,
\* ReplaceTrustedVendorKeys).
VendorsHold == VendorKeysTrusted /\ VendorWhole

=============================================================================
