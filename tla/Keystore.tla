------------------------------ MODULE Keystore ------------------------------
(* custody.Keystore as its programs use it: the custody command, run by hand,  *)
(* and the exchange at its start (cmd/exchange buildTransferHub).  The file is *)
(* the sole copy of the hot wallets' seeds.  Every program reads the whole     *)
(* file, and one that adds a wallet writes the whole file again: into          *)
(* "<path>.tmp", which is flushed and renamed over the path.  No lock keeps    *)
(* two programs apart and both write the same temporary name.                  *)
(*                                                                             *)
(* A file is an inode.  `path` and `tmp` are the two directory entries, `disk` *)
(* is what the directory on disk holds for the path: a rename reaches it when  *)
(* the system writes the directory back, which persist does not ask for.  A    *)
(* seed is a number, in the order they were drawn.  Encryption is left out:    *)
(* the salt, the check value and the entries travel in one file, so whoever    *)
(* reads it whole and has the passphrase reads its seeds.  Keystore.Delete has  *)
(* no caller and is left out.                                                  *)
EXTENDS Integers, FiniteSets, Functions

CONSTANTS Programs,     \* runs of the custody command or of the exchange
          Wallets,      \* wallet names
          MaxSeeds,     \* bound: wallets created in a behaviour
          MaxLosses,    \* bound: power losses
          NoFile, Torn  \* no such directory entry; bytes that do not parse

ASSUME KeystoreAssumption ==
  /\ IsFiniteSet(Programs) /\ MaxSeeds \in Nat /\ MaxLosses \in Nat
  /\ NoFile \notin 1..(3 + Cardinality(Programs))
  /\ \A S \in SUBSET Wallets : Torn \notin [S -> Nat]

VARIABLES path, tmp, disk,  \* directory entries: an inode or NoFile
          inode,            \* [Inodes -> [data, synced]]
          prog,             \* [Programs -> [pc, wants, mem, fd, seed]]
          drawn,            \* seeds drawn so far
          losses,
          promised,         \* wallets whose creation was reported: name -> seed
          settled,          \* promised, when the directory was last written back
          overlapped        \* two programs have had the file open at once
keyVars == <<path, tmp, disk, inode, prog, drawn, losses, promised, settled, overlapped>>

NoWallets == [n \in {} |-> 0]
NotRunning == [pc |-> "idle", wants |-> {}, mem |-> NoWallets, fd |-> NoFile, seed |-> 0]
Inodes == 1..(3 + Cardinality(Programs))   \* path, tmp, disk and one per open file
Busy == {p \in Programs : prog[p].pc # "idle"}

KeyInit ==
  /\ path = NoFile /\ tmp = NoFile /\ disk = NoFile
  /\ inode = [i \in Inodes |-> [data |-> Torn, synced |-> TRUE]]
  /\ prog = [p \in Programs |-> NotRunning]
  /\ drawn = 0 /\ losses = 0
  /\ promised = NoWallets /\ settled = NoWallets
  /\ overlapped = FALSE

Goes(p, r) == prog' = [prog EXCEPT ![p] = r]
SameFiles == UNCHANGED <<path, tmp, disk, inode>>
SamePromises == UNCHANGED <<losses, promised, settled>>

\* A program starts: `wallet new` wants one name, every other command none.
Run(p) == \E wants \in {{}} \cup {{n} : n \in Wallets} :
  /\ p \notin Busy
  /\ (wants # {}) => drawn < MaxSeeds
  /\ Goes(p, [NotRunning EXCEPT !.pc = "open", !.wants = wants])
  /\ overlapped' = (overlapped \/ Busy # {})
  /\ SameFiles /\ SamePromises /\ UNCHANGED drawn

\* Open: a file that is not there is created, empty, before anything else is
\* done; a file that does not parse is an error.
Open(p) ==
  /\ prog[p].pc = "open"
  /\ \/ path = NoFile /\ Goes(p, [prog[p] EXCEPT !.pc = "truncate"])
     \/ /\ path # NoFile /\ inode[path].data = Torn
        /\ Goes(p, NotRunning)
     \/ /\ path # NoFile /\ inode[path].data # Torn
        /\ Goes(p, [prog[p] EXCEPT !.mem = inode[path].data, !.pc = "opened"])
  /\ SameFiles /\ SamePromises /\ UNCHANGED <<drawn, overlapped>>

\* NewKey and Put: the seed enters the map in memory and persist begins.  A
\* second wallet of the same name replaces the first.  A program that only
\* reads ends here (Get, Lookup and List change nothing).
Put(p) ==
  /\ prog[p].pc = "opened"
  /\ \/ prog[p].wants = {} /\ Goes(p, NotRunning) /\ UNCHANGED drawn
     \/ \E n \in prog[p].wants :
          /\ drawn < MaxSeeds
          /\ drawn' = drawn + 1
          /\ Goes(p, [prog[p] EXCEPT !.pc = "truncate", !.seed = drawn + 1,
                        !.mem = [k \in DOMAIN @ \cup {n} |-> IF k = n THEN drawn + 1 ELSE @[k]]])
  /\ SameFiles /\ SamePromises /\ UNCHANGED overlapped

FreeInodes == Inodes \ ({path, tmp, disk} \cup {prog[p].fd : p \in Programs})

\* os.OpenFile(tmp, O_CREATE|O_TRUNC): empties the file another program may be
\* writing, for the name is the same.
Truncate(p) ==
  /\ prog[p].pc = "truncate"
  /\ LET i == IF tmp # NoFile THEN tmp ELSE CHOOSE f \in FreeInodes : \A g \in FreeInodes : f <= g
     IN /\ tmp' = i
        /\ inode' = [inode EXCEPT ![i] = [data |-> Torn, synced |-> FALSE]]
        /\ Goes(p, [prog[p] EXCEPT !.fd = i, !.pc = "write"])
  /\ SamePromises /\ UNCHANGED <<path, disk, drawn, overlapped>>

\* One program's bytes land over whatever the file holds, from its start: a
\* longer file keeps its tail.
Overlay(old, new) ==
  IF old # Torn /\ Cardinality(DOMAIN old) > Cardinality(DOMAIN new) THEN Torn ELSE new

WriteTmp(p) ==
  /\ prog[p].pc = "write"
  /\ inode' = [inode EXCEPT ![prog[p].fd] =
                 [data |-> Overlay(@.data, prog[p].mem), synced |-> FALSE]]
  /\ Goes(p, [prog[p] EXCEPT !.pc = "sync"])
  /\ SamePromises /\ UNCHANGED <<path, tmp, disk, drawn, overlapped>>

SyncLater(p) ==   \* a mutant: the data is left to the system's write-back
  /\ prog[p].pc = "sync"
  /\ Goes(p, [prog[p] EXCEPT !.pc = "rename"])
  /\ SamePromises /\ UNCHANGED <<path, tmp, disk, inode, drawn, overlapped>>

Sync(p) ==
  /\ prog[p].pc = "sync"
  /\ inode' = [inode EXCEPT ![prog[p].fd].synced = TRUE]
  /\ Goes(p, [prog[p] EXCEPT !.pc = "rename"])
  /\ SamePromises /\ UNCHANGED <<path, tmp, disk, drawn, overlapped>>

\* os.Rename moves the directory entry, whichever inode it names by now; with
\* no entry left (another program renamed it) it fails and so does the command.
\* The create that Open makes goes on to Put, a Put that went through is
\* reported to the user.
Rename(p) ==
  /\ prog[p].pc = "rename"
  /\ IF tmp = NoFile
     THEN Goes(p, NotRunning) /\ UNCHANGED <<path, tmp, promised>>
     ELSE /\ path' = tmp /\ tmp' = NoFile
          /\ IF prog[p].seed = 0
             THEN Goes(p, [prog[p] EXCEPT !.pc = "opened", !.fd = NoFile]) /\ UNCHANGED promised
             ELSE /\ Goes(p, NotRunning)
                  /\ promised' = [n \in DOMAIN promised \cup prog[p].wants |->
                                    IF n \in prog[p].wants THEN prog[p].seed ELSE promised[n]]
  /\ UNCHANGED <<disk, inode, drawn, losses, settled, overlapped>>

\* A failing call, a signal: the program is gone, what it wrote stays.
Die(p) ==
  /\ p \in Busy
  /\ Goes(p, NotRunning)
  /\ SameFiles /\ SamePromises /\ UNCHANGED <<drawn, overlapped>>

\* The system writes the directory back, in its own time.
WriteBack ==
  /\ <<disk, settled>> # <<path, promised>>
  /\ disk' = path /\ settled' = promised
  /\ UNCHANGED <<path, tmp, inode, prog, drawn, losses, promised, overlapped>>

\* The machine stops: programs end, unsynced data may be lost, and the path is
\* either what it was or what the disk's directory says.
PowerLoss == \E kept \in BOOLEAN, intact \in SUBSET {i \in Inodes : ~inode[i].synced} :
  /\ losses < MaxLosses
  /\ losses' = losses + 1
  /\ path' = (IF kept THEN path ELSE disk) /\ disk' = path'
  /\ promised' = (IF kept THEN promised ELSE settled) /\ settled' = promised'
  /\ tmp' = NoFile
  /\ inode' = [i \in Inodes |->
                 [data |-> IF inode[i].synced \/ i \in intact THEN inode[i].data ELSE Torn,
                  synced |-> TRUE]]
  /\ prog' = [p \in Programs |-> NotRunning]
  /\ UNCHANGED <<drawn, overlapped>>

KeyNext ==
  \/ \E p \in Programs : \/ Run(p) \/ Open(p) \/ Put(p) \/ Truncate(p) \/ WriteTmp(p)
                         \/ Sync(p) \/ Rename(p) \/ Die(p)
  \/ WriteBack \/ PowerLoss

KeySpec == KeyInit /\ [][KeyNext]_keyVars

-----------------------------------------------------------------------------
(* custody/keystore.go persist: while programs run one after another, no       *)
(* failing call, kill or power loss leaves a file that does not open, and every *)
(* wallet whose creation was reported is in it (or one made later under its    *)
(* name) once its rename is on disk.                                           *)
WalletsKept ==
  ~overlapped =>
    /\ path # NoFile => inode[path].data # Torn
    /\ DOMAIN promised # {} => path # NoFile
    /\ \A n \in DOMAIN promised :
         /\ n \in DOMAIN inode[path].data
         /\ inode[path].data[n] >= promised[n]

=============================================================================
