----------------------- MODULE RuntimeLifecycleProofs -----------------------
(***************************************************************************)
(* The safety properties of RuntimeLifecycle for any device, any runtimes  *)
(* and any number of commands and edits.  The inductive invariant says     *)
(* what each step of a command may rely on: what it has captured, written, *)
(* stored and read back so far.                                            *)
(***************************************************************************)
EXTENDS RuntimeLifecycle, TLAPS

\* The pages that the running command writes to.
Owned == {PageOf[s] : s \in DOMAIN goal}

\* A command that runs has a bundle, visits the bundle's slots, and has not
\* been answered.  Only an install touches the backup, only verify and repair
\* begin with an inspection, and a restore writes the backup there is.
CommandOK ==
  /\ step # "idle" => /\ goal \in Bundle
                      /\ slots \subseteq DOMAIN goal
                      /\ outcome = "none"
  /\ step \in {"capture", "swap_backup"} => command = "install"
  /\ step = "inspect" => command \in {"verify", "repair"}
  /\ command = "verify" => step \in {"idle", "inspect"}
  /\ step # "idle" /\ command = "restore" => goal = preInstall

\* Every slot that has been visited is in the backup that is being collected.
CaptureOK ==
  /\ step \in {"capture", "swap_backup"} =>
       DOMAIN captured = DOMAIN goal \ slots
  /\ step = "swap_backup" => slots = {}

\* What has to be kept is in the backup, and while that is replaced, it is in
\* the staged one and still on the device.
BackupOK ==
  \A s \in DOMAIN pristine :
    IF step = "swap_backup"
      THEN /\ s \in DOMAIN captured
           /\ captured[s] = pristine[s]
           /\ flash[s] = pristine[s]
      ELSE /\ preInstall \in Bundle
           /\ s \in DOMAIN preInstall
           /\ preInstall[s] = pristine[s]

\* An inspection has a finding for each slot that it visited, and a match is
\* what the device holds.
SeenOK ==
  /\ step \in {"inspect", "check"} =>
       /\ DOMAIN seen = DOMAIN goal \ slots
       /\ \A s \in DOMAIN seen : seen[s] = "match" => ram[s] = Framed[goal[s]]
  /\ step \in {"capture", "swap_backup", "write"} => seen = Nothing

\* No page is stored before all slots are written, and none is left out.  What
\* is on a page whose store was not led astray is stored as it is in use.
StoreOK ==
  /\ \/ step \in {"capture", "swap_backup", "inspect"}
     \/ step = "write" /\ slots # {}
     => Owned \subseteq pages
  /\ step = "check" => pages = {}
  /\ step \in {"write", "check"} =>
       \A s \in Slot : PageOf[s] \in Owned \ (pages \cup strayed) =>
                         flash[s] = ram[s]

\* The frozen copy is only replaced once the device has the whole bundle.
AcceptedOK == step = "swap_frozen" /\ command # "clear" => OnDevice(goal)

IInv ==
  /\ TypeOK
  /\ CommandOK
  /\ CaptureOK
  /\ BackupOK
  /\ SeenOK
  /\ StoreOK
  /\ AcceptedOK
  /\ RemoveRestores

-----------------------------------------------------------------------------
(* Partial functions on the slots                                          *)

\* A partial function is known by its domain and its values.
LEMMA PartialFacts ==
  ASSUME NEW S, NEW f
  PROVE  f \in Partial(S) <=> /\ f = [s \in DOMAIN f |-> f[s]]
                              /\ DOMAIN f \subseteq Slot
                              /\ \A s \in DOMAIN f : f[s] \in S
<1>1. ASSUME f \in Partial(S)
      PROVE  /\ f = [s \in DOMAIN f |-> f[s]]
             /\ DOMAIN f \subseteq Slot
             /\ \A s \in DOMAIN f : f[s] \in S
  <2>1. PICK D \in SUBSET Slot : f \in [D -> S]
    BY <1>1 DEF Partial
  <2>2. QED
    BY <2>1
<1>2. ASSUME f = [s \in DOMAIN f |-> f[s]], DOMAIN f \subseteq Slot,
             \A s \in DOMAIN f : f[s] \in S
      PROVE  f \in Partial(S)
  <2>1. f \in [DOMAIN f -> S]
    BY <1>2
  <2>2. QED
    BY <1>2, <2>1 DEF Partial
<1>3. QED
  BY <1>1, <1>2

\* A bundle is a partial function to scripts that owns a slot.
LEMMA BundleFacts ==
  ASSUME NEW b
  PROVE  b \in Bundle <=> b \in Partial(Content) /\ DOMAIN b # {}
<1>1. ASSUME b \in Bundle  PROVE b \in Partial(Content) /\ DOMAIN b # {}
  <2>1. PICK D \in (SUBSET Slot) \ {{}} : b \in [D -> Content]
    BY <1>1 DEF Bundle
  <2>2. QED
    BY <2>1 DEF Partial
<1>2. ASSUME b \in Partial(Content), DOMAIN b # {}  PROVE b \in Bundle
  <2>1. PICK D \in SUBSET Slot : b \in [D -> Content]
    BY <1>2 DEF Partial
  <2>2. D \in (SUBSET Slot) \ {{}}
    BY <1>2, <2>1
  <2>3. QED
    BY <2>1, <2>2 DEF Bundle
<1>3. QED
  BY <1>1, <1>2

\* Nothing is the partial function without a slot.
LEMMA NothingFacts ==
  /\ DOMAIN Nothing = {}
  /\ \A S : Nothing \in Partial(S)
<1>1. DOMAIN Nothing = {}
  BY DEF Nothing
<1>2. ASSUME NEW S  PROVE Nothing \in Partial(S)
  <2>1. Nothing = [s \in DOMAIN Nothing |-> Nothing[s]]
    BY DEF Nothing
  <2>2. QED
    BY <1>1, <2>1, PartialFacts
<1>3. QED
  BY <1>1, <1>2

\* Put adds one slot, and leaves the others as they are.
LEMMA PutFacts ==
  ASSUME NEW S, NEW f \in Partial(S), NEW s \in Slot, NEW v \in S
  PROVE  /\ Put(f, s, v) \in Partial(S)
         /\ DOMAIN Put(f, s, v) = DOMAIN f \cup {s}
         /\ Put(f, s, v)[s] = v
         /\ \A t \in DOMAIN f \ {s} : Put(f, s, v)[t] = f[t]
<1>1. /\ DOMAIN f \subseteq Slot
      /\ \A t \in DOMAIN f : f[t] \in S
  BY PartialFacts
<1>2. Put(f, s, v) \in [DOMAIN f \cup {s} -> S]
  BY <1>1 DEF Put
<1>3. Put(f, s, v) \in Partial(S)
  BY <1>1, <1>2 DEF Partial
<1>4. QED
  BY <1>3 DEF Put

\* Drop takes one slot away, and leaves the others as they are.
LEMMA DropFacts ==
  ASSUME NEW S, NEW f \in Partial(S), NEW s
  PROVE  /\ Drop(f, s) \in Partial(S)
         /\ DOMAIN Drop(f, s) = DOMAIN f \ {s}
         /\ \A t \in DOMAIN f \ {s} : Drop(f, s)[t] = f[t]
<1>1. /\ DOMAIN f \subseteq Slot
      /\ \A t \in DOMAIN f : f[t] \in S
  BY PartialFacts
<1>2. Drop(f, s) \in [DOMAIN f \ {s} -> S]
  BY <1>1 DEF Drop
<1>3. Drop(f, s) \in Partial(S)
  BY <1>1, <1>2 DEF Partial
<1>4. QED
  BY <1>3 DEF Drop

-----------------------------------------------------------------------------
(* The inductive invariant                                                 *)

\* At the start no command runs and nothing has to be kept.
THEOREM InitIInv == Init => IInv
<1> SUFFICES ASSUME Init  PROVE IInv
  OBVIOUS
<1>1. TypeOK
  BY LifecycleAssumption, NothingFacts DEF Init, TypeOK
<1>2. CommandOK /\ CaptureOK /\ SeenOK /\ StoreOK /\ AcceptedOK
  BY DEF Init, CommandOK, CaptureOK, SeenOK, StoreOK, AcceptedOK
<1>3. BackupOK /\ RemoveRestores
  BY NothingFacts DEF Init, BackupOK, RemoveRestores
<1>4. QED
  BY <1>1, <1>2, <1>3 DEF IInv

\* A command that begins with a bundle of its own keeps the invariant.
LEMMA BeginKeeps ==
  ASSUME IInv, Issue, UNCHANGED <<deviceVars, hostVars, recorded, strayed>>,
         NEW b \in Bundle, NEW name, NEW first, Begin(name, first, b),
         pristine' \in {pristine, Nothing},
         \/ name = "install" /\ first = "capture"
         \/ name \in {"upgrade", "clear"} /\ first = "write"
         \/ name \in {"repair", "verify"} /\ first = "inspect"
         \/ name = "restore" /\ first = "write" /\ b = preInstall
  PROVE  IInv'
<1> USE DEF IInv, Begin
<1>1. TypeOK'
  <2>1. b \in Partial(Content) /\ DOMAIN b \subseteq Slot
    BY BundleFacts, PartialFacts
  <2>2. pages' \subseteq Page
    BY <2>1, LifecycleAssumption
  <2>3. issued' \in 0 .. MaxCommands
    BY LifecycleAssumption DEF Issue, TypeOK
  <2>4. QED
    BY <2>1, <2>2, <2>3, NothingFacts DEF TypeOK, Issue, deviceVars, hostVars
<1>2. CommandOK'
  BY DEF CommandOK, Issue, hostVars
<1>3. CaptureOK' /\ SeenOK'
  BY NothingFacts DEF CaptureOK, SeenOK
<1>4. BackupOK'
  BY NothingFacts DEF BackupOK, Issue, hostVars
<1>5. StoreOK'
  BY DEF StoreOK, Owned
<1>6. AcceptedOK' /\ RemoveRestores'
  BY DEF AcceptedOK, RemoveRestores
<1>7. QED
  BY <1>1, <1>2, <1>3, <1>4, <1>5, <1>6

\* A command that is refused changes nothing that a step relies on.
LEMMA RefuseKeeps ==
  ASSUME IInv, Issue, NEW name \in {"repair", "verify", "clear"}, Refuse(name),
         UNCHANGED <<deviceVars, hostVars, historyVars>>
  PROVE  IInv'
<1> USE DEF IInv, Refuse, Issue, deviceVars, hostVars, historyVars
<1>1. TypeOK'
  BY LifecycleAssumption DEF TypeOK
<1>2. CommandOK' /\ CaptureOK' /\ BackupOK'
  BY DEF CommandOK, CaptureOK, BackupOK
<1>3. SeenOK' /\ StoreOK' /\ AcceptedOK' /\ RemoveRestores'
  BY DEF SeenOK, StoreOK, AcceptedOK, RemoveRestores, Owned, OnDevice
<1>4. QED
  BY <1>1, <1>2, <1>3

\* An edit takes the slot out of what has to be kept, and comes between commands.
LEMMA EditKeeps ==
  ASSUME IInv, NEW s \in Slot, NEW script \in Content, Edit(s, script)
  PROVE  IInv'
<1>1. pristine \in Partial(Content)
  BY DEF IInv, TypeOK
<1>2. /\ pristine' \in Partial(Content)
      /\ DOMAIN pristine' = DOMAIN pristine \ {s}
      /\ \A t \in DOMAIN pristine' : pristine'[t] = pristine[t]
  BY <1>1, DropFacts DEF Edit
<1> USE DEF IInv, Edit, Issue, hostVars
<1>3. TypeOK'
  BY <1>2, LifecycleAssumption DEF TypeOK
<1>4. CommandOK' /\ CaptureOK' /\ SeenOK' /\ StoreOK' /\ AcceptedOK'
  BY DEF CommandOK, CaptureOK, SeenOK, StoreOK, AcceptedOK
<1>5. BackupOK' /\ RemoveRestores'
  BY <1>2 DEF BackupOK, RemoveRestores
<1>6. QED
  BY <1>3, <1>4, <1>5

\* Whichever command starts, and whether it begins or is refused.
LEMMA StartsKeep ==
  ASSUME IInv,
         \/ \E b \in Runtime : StartInstall(b) \/ StartUpgrade(b)
         \/ StartRepair
         \/ StartVerify
         \/ StartRemove
  PROVE  IInv'
<1>1. ASSUME NEW b \in Runtime, StartInstall(b) \/ StartUpgrade(b)  PROVE IInv'
  BY <1>1, LifecycleAssumption, BeginKeeps
     DEF StartInstall, StartUpgrade, historyVars
<1>2. ASSUME StartRepair \/ StartVerify  PROVE IInv'
  BY <1>2, BeginKeeps, RefuseKeeps DEF StartRepair, StartVerify, historyVars
<1>3. ASSUME StartRemove  PROVE IInv'
  <2>1. CASE preInstall \in Bundle
    BY <1>3, <2>1, BeginKeeps DEF StartRemove
  <2>2. CASE preInstall \notin Bundle /\ frozen \in Bundle
    <3> DEFINE b == [s \in DOMAIN frozen |-> Empty]
    <3>1. b \in Bundle
      BY <2>2, LifecycleAssumption, BundleFacts, PartialFacts
    <3>2. Issue /\ Begin("clear", "write", b) /\ pristine' = Nothing
      BY <1>3, <2>2 DEF StartRemove
    <3>3. QED
      BY <1>3, <3>1, <3>2, BeginKeeps DEF StartRemove
  <2>3. CASE preInstall \notin Bundle /\ frozen \notin Bundle
    BY <1>3, <2>3, RefuseKeeps DEF StartRemove, historyVars
  <2>4. QED
    BY <2>1, <2>2, <2>3
<1>4. QED
  BY <1>1, <1>2, <1>3

\* One more slot is in the staged backup.
LEMMA CaptureSlotKeeps ==
  ASSUME IInv, NEW s \in Slot, CaptureSlot(s)
  PROVE  IInv'
<1> USE DEF IInv
<1>1. PICK script \in Content : captured' = Put(captured, s, script)
  BY LifecycleAssumption DEF CaptureSlot, TypeOK
<1>2. captured \in Partial(Content)
  BY DEF TypeOK
<1>3. /\ captured' \in Partial(Content)
      /\ DOMAIN captured' = DOMAIN captured \cup {s}
  BY <1>1, <1>2, PutFacts
<1> USE DEF CaptureSlot, deviceVars, hostVars, commandVars, historyVars
<1>4. TypeOK'
  BY <1>3 DEF TypeOK
<1>5. CommandOK' /\ CaptureOK' /\ BackupOK'
  BY <1>3 DEF CommandOK, CaptureOK, BackupOK
<1>6. SeenOK' /\ StoreOK' /\ AcceptedOK' /\ RemoveRestores'
  BY DEF SeenOK, StoreOK, Owned, AcceptedOK, RemoveRestores
<1>7. QED
  BY <1>4, <1>5, <1>6

\* When the old backup goes, what has to be kept is staged and still stored.
LEMMA DeleteOldBackupKeeps ==
  ASSUME IInv, DeleteOldBackup
  PROVE  IInv'
<1> USE DEF IInv, DeleteOldBackup, deviceVars, commandVars
<1> DEFINE kept == {t \in DOMAIN captured :
                      captured[t] = ram[t] /\ ram[t] = flash[t]}
<1>1. DOMAIN captured \subseteq Slot
  BY PartialFacts DEF TypeOK
<1>2. pristine' \in [kept -> Content] /\ pristine' \in Partial(Content)
  BY <1>1 DEF TypeOK, Partial
<1>3. TypeOK'
  BY <1>2 DEF TypeOK, Deleting
<1>4. CommandOK' /\ CaptureOK'
  BY DEF CommandOK, CaptureOK
<1>5. BackupOK'
  BY DEF BackupOK
<1>6. SeenOK' /\ StoreOK' /\ AcceptedOK' /\ RemoveRestores'
  BY DEF SeenOK, StoreOK, Owned, AcceptedOK, RemoveRestores
<1>7. QED
  BY <1>3, <1>4, <1>5, <1>6

\* The published backup owns what the bundle owns, so it loads, and has all
\* that has to be kept.
LEMMA PublishBackupKeeps ==
  ASSUME IInv, PublishBackup
  PROVE  IInv'
<1> USE DEF IInv, PublishBackup, deviceVars, commandVars, historyVars
<1>1. goal \in Bundle /\ DOMAIN goal # {} /\ DOMAIN goal \subseteq Slot
  BY BundleFacts, PartialFacts DEF CommandOK
<1>2. captured \in Bundle
  BY <1>1, BundleFacts DEF CaptureOK, TypeOK
<1>3. TypeOK'
  BY <1>1, <1>2 DEF TypeOK
<1>4. CommandOK' /\ CaptureOK'
  BY <1>1 DEF CommandOK, CaptureOK
<1>5. BackupOK'
  BY <1>2 DEF BackupOK
<1>6. SeenOK' /\ StoreOK' /\ AcceptedOK' /\ RemoveRestores'
  BY DEF SeenOK, StoreOK, Owned, AcceptedOK, RemoveRestores
<1>7. QED
  BY <1>3, <1>4, <1>5, <1>6

\* A slot is written, or the write is lost: either way no page that it writes
\* to has been stored yet.
LEMMA WriteSlotKeeps ==
  ASSUME IInv, NEW s \in Slot, WriteSlot(s)
  PROVE  IInv'
<1> USE DEF IInv, WriteSlot, hostVars, commandVars, historyVars
<1>1. Framed[goal[s]] \in Content
  BY LifecycleAssumption, PartialFacts DEF CommandOK, TypeOK
<1>2. TypeOK'
  BY <1>1 DEF TypeOK
<1>3. CommandOK' /\ CaptureOK' /\ BackupOK'
  BY DEF CommandOK, CaptureOK, BackupOK
<1>4. SeenOK' /\ AcceptedOK' /\ RemoveRestores'
  BY DEF SeenOK, AcceptedOK, RemoveRestores
<1>5. StoreOK'
  BY DEF StoreOK, Owned
<1>6. QED
  BY <1>2, <1>3, <1>4, <1>5

\* Whichever page is stored, what is stored of the owned pages that have had
\* their turn is what is in use.
LEMMA StoreFacts ==
  ASSUME TypeOK, StoreOK, NEW p \in pages, step = "write", Store(p),
         UNCHANGED <<ram, goal>>
  PROVE  /\ flash' \in [Slot -> Content]
         /\ strayed' \subseteq Page
         /\ \A s \in Slot : PageOf[s] \in Owned \ ((pages \ {p}) \cup strayed') =>
                              flash'[s] = ram[s]
<1>1. PICK q \in Page :
        /\ flash' = [s \in Slot |-> IF PageOf[s] = q THEN ram[s] ELSE flash[s]]
        /\ strayed' = (strayed \cup {p}) \ {q}
  BY DEF Store
<1>2. flash' \in [Slot -> Content] /\ strayed' \subseteq Page
  BY <1>1 DEF TypeOK
<1>3. ASSUME NEW s \in Slot,
             PageOf[s] \in Owned \ ((pages \ {p}) \cup strayed')
      PROVE  flash'[s] = ram[s]
  <2>1. CASE PageOf[s] = q
    BY <1>1, <2>1
  <2>2. CASE PageOf[s] # q
    BY <1>1, <1>3, <2>2 DEF StoreOK
  <2>3. QED
    BY <2>1, <2>2
<1>4. QED
  BY <1>2, <1>3

\* A page is stored; after the last one the read-back begins with nothing seen.
LEMMA StorePageKeeps ==
  ASSUME IInv, NEW p \in Page, StorePage(p)
  PROVE  IInv'
<1> USE DEF IInv, StorePage, hostVars, commandVars
<1>1. /\ flash' \in [Slot -> Content]
      /\ strayed' \subseteq Page
      /\ \A s \in Slot : PageOf[s] \in Owned \ (pages' \cup strayed') =>
                           flash'[s] = ram[s]
  BY StoreFacts
<1>2. DOMAIN goal \subseteq Slot
  BY PartialFacts DEF TypeOK
<1>3. TypeOK'
  BY <1>1, <1>2 DEF TypeOK
<1>4. CommandOK' /\ CaptureOK' /\ BackupOK'
  BY DEF CommandOK, CaptureOK, BackupOK
<1>5. SeenOK'
  BY NothingFacts DEF SeenOK
<1>6. StoreOK'
  BY <1>1 DEF StoreOK, Owned
<1>7. AcceptedOK' /\ RemoveRestores'
  BY DEF AcceptedOK, RemoveRestores
<1>8. QED
  BY <1>3, <1>4, <1>5, <1>6, <1>7

\* A store without an answer ends the command.
LEMMA StoreUnacknowledgedKeeps ==
  ASSUME IInv, NEW p \in Page, StoreUnacknowledged(p)
  PROVE  IInv'
<1> USE DEF IInv, StoreUnacknowledged, hostVars, commandVars
<1>1. flash' \in [Slot -> Content] /\ strayed' \subseteq Page
  BY StoreFacts
<1>2. TypeOK'
  BY <1>1 DEF TypeOK
<1>3. CommandOK' /\ CaptureOK' /\ BackupOK'
  BY DEF CommandOK, CaptureOK, BackupOK
<1>4. SeenOK' /\ StoreOK' /\ AcceptedOK' /\ RemoveRestores'
  BY DEF SeenOK, StoreOK, AcceptedOK, RemoveRestores
<1>5. QED
  BY <1>2, <1>3, <1>4

\* One more slot has a finding, and a match is what the device holds.
LEMMA InspectSlotKeeps ==
  ASSUME IInv, NEW s \in Slot, InspectSlot(s)
  PROVE  IInv'
<1> USE DEF IInv
<1>1. PICK finding \in Finding :
        /\ seen' = Put(seen, s, finding)
        /\ finding = "match" => ram[s] = Framed[goal[s]]
  BY DEF InspectSlot, Reported, Finding
<1>2. seen \in Partial(Finding)
  BY DEF TypeOK
<1>3. /\ seen' \in Partial(Finding)
      /\ DOMAIN seen' = DOMAIN seen \cup {s}
      /\ seen'[s] = finding
      /\ \A t \in DOMAIN seen \ {s} : seen'[t] = seen[t]
  BY <1>1, <1>2, PutFacts
<1> USE DEF InspectSlot, deviceVars, hostVars, commandVars, historyVars
<1>4. TypeOK'
  BY <1>3 DEF TypeOK
<1>5. CommandOK' /\ CaptureOK' /\ BackupOK'
  BY DEF CommandOK, CaptureOK, BackupOK
<1>6. SeenOK'
  BY <1>1, <1>3 DEF SeenOK, CommandOK
<1>7. StoreOK' /\ AcceptedOK' /\ RemoveRestores'
  BY DEF StoreOK, Owned, AcceptedOK, RemoveRestores
<1>8. QED
  BY <1>4, <1>5, <1>6, <1>7

\* A command that ends without success relies on nothing.
LEMMA ErrorKeeps ==
  ASSUME IInv, End("error"), flash' = flash, ram' \in {ram, flash},
         UNCHANGED <<hostVars, commandVars, captured, recorded, strayed>>,
         IF step = "swap_backup" THEN pristine' = Nothing
                                 ELSE UNCHANGED pristine
  PROVE  IInv'
<1> USE DEF IInv, End, hostVars, commandVars
<1>1. TypeOK'
  BY NothingFacts DEF TypeOK
<1>2. CommandOK' /\ CaptureOK'
  BY DEF CommandOK, CaptureOK
<1>3. BackupOK'
  BY NothingFacts DEF BackupOK
<1>4. SeenOK' /\ StoreOK' /\ AcceptedOK' /\ RemoveRestores'
  BY DEF SeenOK, StoreOK, AcceptedOK, RemoveRestores
<1>5. QED
  BY <1>1, <1>2, <1>3, <1>4

\* Verify ends, well or not, and has changed nothing.
LEMMA FinishVerifyKeeps ==
  ASSUME IInv, FinishVerify
  PROVE  IInv'
<1> USE DEF IInv, FinishVerify, End, deviceVars, hostVars, commandVars,
            historyVars
<1>1. TypeOK'
  BY DEF TypeOK
<1>2. CommandOK' /\ CaptureOK' /\ BackupOK'
  BY DEF CommandOK, CaptureOK, BackupOK
<1>3. SeenOK' /\ StoreOK' /\ AcceptedOK' /\ RemoveRestores'
  BY DEF SeenOK, StoreOK, AcceptedOK, RemoveRestores
<1>4. QED
  BY <1>1, <1>2, <1>3

\* Repair goes on to write what the frozen copy owns, or refuses.
LEMMA PlanRepairKeeps ==
  ASSUME IInv, PlanRepair
  PROVE  IInv'
<1> USE DEF PlanRepair
<1>1. CASE ExactMatch \/ FoundOnly({"missing"})
  BY <1>1, ErrorKeeps DEF deviceVars, historyVars
<1>2. CASE ~(ExactMatch \/ FoundOnly({"missing"}))
  <2>1. /\ step = "inspect" /\ command = "repair" /\ step' = "write"
        /\ slots' = DOMAIN goal
        /\ seen' = Nothing
        /\ UNCHANGED <<pages, outcome, captured, deviceVars, hostVars,
                       commandVars, historyVars>>
    BY <1>2
  <2> HIDE DEF PlanRepair
  <2> USE DEF IInv, deviceVars, hostVars, commandVars, historyVars
  <2>2. DOMAIN goal \subseteq Slot
    BY PartialFacts DEF TypeOK
  <2>3. TypeOK'
    BY <2>1, <2>2, NothingFacts DEF TypeOK
  <2>4. CommandOK' /\ CaptureOK' /\ BackupOK'
    BY <2>1 DEF CommandOK, CaptureOK, BackupOK
  <2>5. SeenOK' /\ StoreOK' /\ AcceptedOK' /\ RemoveRestores'
    BY <2>1 DEF SeenOK, StoreOK, Owned, AcceptedOK, RemoveRestores
  <2>6. QED
    BY <2>3, <2>4, <2>5
<1>3. QED
  BY <1>1, <1>2

\* After a read-back in which every slot matches, the device has the bundle.
LEMMA MatchIsOnDevice ==
  ASSUME IInv, step = "check", slots = {}, ExactMatch
  PROVE  OnDevice(goal)
<1> USE DEF IInv
<1>1. SUFFICES ASSUME NEW s \in DOMAIN goal, PageOf[s] \notin strayed
               PROVE  ram[s] = Framed[goal[s]] /\ flash[s] = Framed[goal[s]]
  BY DEF OnDevice
<1>2. ram[s] = Framed[goal[s]]
  BY DEF SeenOK, ExactMatch, FoundOnly
<1>3. s \in Slot /\ PageOf[s] \in Owned \ (pages \cup strayed)
  BY <1>1, PartialFacts DEF StoreOK, Owned, TypeOK
<1>4. QED
  BY <1>2, <1>3 DEF StoreOK

\* The frozen copy goes only once the device has the bundle.
LEMMA AcceptReadBackKeeps ==
  ASSUME IInv, AcceptReadBack
  PROVE  IInv'
<1> USE DEF AcceptReadBack
<1> DEFINE content == \/ ExactMatch
                      \/ command = "clear" /\ FoundOnly({"match", "missing"})
<1>1. CASE content
  <2>1. /\ step = "check" /\ slots = {} /\ step' = "swap_frozen"
        /\ frozen' \in Deleting(frozen)
        /\ recorded' \in {None, recorded}
        /\ UNCHANGED <<slots, pages, seen, outcome, captured, deviceVars,
                       preInstall, commandVars, pristine, strayed>>
    BY <1>1
  <2>2. command = "clear" \/ OnDevice(goal)
    BY <1>1, MatchIsOnDevice
  <2> HIDE DEF AcceptReadBack
  <2> USE DEF IInv, deviceVars, commandVars
  <2>3. TypeOK'
    BY <2>1 DEF TypeOK, Deleting
  <2>4. CommandOK' /\ CaptureOK' /\ BackupOK'
    BY <2>1 DEF CommandOK, CaptureOK, BackupOK
  <2>5. SeenOK' /\ StoreOK' /\ RemoveRestores'
    BY <2>1 DEF SeenOK, StoreOK, RemoveRestores
  <2>6. AcceptedOK'
    BY <2>1, <2>2 DEF AcceptedOK, OnDevice
  <2>7. QED
    BY <2>3, <2>4, <2>5, <2>6
<1>2. CASE ~content
  BY <1>2, ErrorKeeps DEF deviceVars, hostVars
<1>3. QED
  BY <1>1, <1>2

\* The frozen copy is replaced, and a restore has put the backup back.
LEMMA SwapFrozenKeeps ==
  ASSUME IInv, SwapFrozen
  PROVE  IInv'
<1> USE DEF IInv, SwapFrozen, End, deviceVars, commandVars
<1>1. TypeOK'
  BY DEF TypeOK, CommandOK
<1>2. CommandOK' /\ CaptureOK' /\ BackupOK'
  BY DEF CommandOK, CaptureOK, BackupOK
<1>3. SeenOK' /\ StoreOK' /\ AcceptedOK'
  BY DEF SeenOK, StoreOK, AcceptedOK
<1>4. RemoveRestores'
  <2>1. SUFFICES ASSUME command = "restore"  PROVE OnDevice(pristine)'
    BY DEF RemoveRestores
  <2>2. OnDevice(goal) /\ goal = preInstall
    BY <2>1 DEF AcceptedOK, CommandOK
  <2>3. QED
    BY <2>2 DEF OnDevice, BackupOK
<1>5. QED
  BY <1>1, <1>2, <1>3, <1>4

\* A reboot ends a command that was at work on the device, and harms no other:
\* what it has accepted is stored.
LEMMA PowerCycleKeeps ==
  ASSUME IInv, PowerCycle
  PROVE  IInv'
<1>1. CASE step \in {"capture", "inspect", "write", "check"}
  BY <1>1, ErrorKeeps DEF PowerCycle, historyVars
<1>2. CASE step \notin {"capture", "inspect", "write", "check"}
  <2> USE DEF IInv, PowerCycle, hostVars, commandVars, historyVars
  <2>1. UNCHANGED <<step, outcome, slots, pages, seen>>
    BY <1>2
  <2>2. TypeOK'
    BY <2>1 DEF TypeOK
  <2>3. CommandOK' /\ CaptureOK' /\ BackupOK'
    BY <2>1 DEF CommandOK, CaptureOK, BackupOK
  <2>4. SeenOK' /\ StoreOK'
    BY <1>2, <2>1 DEF SeenOK, StoreOK
  <2>5. AcceptedOK' /\ RemoveRestores'
    BY <2>1 DEF AcceptedOK, RemoveRestores, OnDevice
  <2>6. QED
    BY <2>2, <2>3, <2>4, <2>5
<1>3. QED
  BY <1>1, <1>2

\* Every step keeps the inductive invariant.
LEMMA StepIInv == IInv /\ [Next]_vars => IInv'
<1> SUFFICES ASSUME IInv, [Next]_vars  PROVE IInv'
  OBVIOUS
<1>1. ASSUME \/ \E b \in Runtime : StartInstall(b) \/ StartUpgrade(b)
             \/ StartRepair
             \/ StartVerify
             \/ StartRemove
      PROVE  IInv'
  BY <1>1, StartsKeep
<1>2. ASSUME DeleteOldBackup \/ PublishBackup  PROVE IInv'
  BY <1>2, DeleteOldBackupKeeps, PublishBackupKeeps
<1>3. ASSUME NEW s \in Slot, CaptureSlot(s) \/ WriteSlot(s) \/ InspectSlot(s)
      PROVE  IInv'
  BY <1>3, CaptureSlotKeeps, WriteSlotKeeps, InspectSlotKeeps
<1>4. ASSUME NEW p \in Page, StorePage(p) \/ StoreUnacknowledged(p)
      PROVE  IInv'
  BY <1>4, StorePageKeeps, StoreUnacknowledgedKeeps
<1>5. ASSUME FinishVerify \/ PlanRepair \/ AcceptReadBack \/ SwapFrozen
      PROVE  IInv'
  BY <1>5, FinishVerifyKeeps, PlanRepairKeeps, AcceptReadBackKeeps,
     SwapFrozenKeeps
<1>6. CASE Abort
  BY <1>6, ErrorKeeps DEF Abort, deviceVars
<1>7. CASE PowerCycle
  BY <1>7, PowerCycleKeeps
<1>8. ASSUME NEW s \in Slot, NEW script \in Content, Edit(s, script)
      PROVE  IInv'
  BY <1>8, EditKeeps
<1>9. CASE UNCHANGED vars
  <2> USE <1>9 DEF vars, IInv, deviceVars, hostVars, commandVars, historyVars
  <2>1. TypeOK' /\ CommandOK' /\ CaptureOK' /\ BackupOK'
    BY DEF TypeOK, CommandOK, CaptureOK, BackupOK
  <2>2. SeenOK' /\ StoreOK' /\ AcceptedOK' /\ RemoveRestores'
    BY DEF SeenOK, StoreOK, Owned, AcceptedOK, RemoveRestores, OnDevice
  <2>3. QED
    BY <2>1, <2>2
<1>10. QED
  BY <1>1, <1>2, <1>3, <1>4, <1>5, <1>6, <1>7, <1>8, <1>9 DEF Next

\* The inductive invariant holds in every reachable state.
THEOREM Invariance == Spec => []IInv
<1>1. QED
  BY InitIInv, StepIInv, PTL DEF Spec

-----------------------------------------------------------------------------
(* The properties                                                          *)

\* Every variable keeps its shape: in particular no backup and no frozen copy
\* without a slot is ever published, and every slot that is visited has a
\* script in the bundle.
THEOREM TypeCorrect == Spec => []TypeOK
<1>1. QED
  BY Invariance, PTL DEF IInv

\* No script that an install overwrites is lost, for any number of commands,
\* edits, failures, kills and power cycles, on any number of slots and pages.
THEOREM OriginalsSafe == Spec => []OriginalIsSafe
<1>1. IInv => OriginalIsSafe
  BY DEF IInv, BackupOK, OriginalIsSafe
<1>2. QED
  BY Invariance, <1>1, PTL

\* A remove that restores and succeeds has put back every script that the last
\* install overwrote, whatever upgrades and repairs came in between.
THEOREM RestoresOriginals == Spec => []RemoveRestores
<1>1. QED
  BY Invariance, PTL DEF IInv

\* A runtime is recorded as installed only while the device has all of it,
\* stored, on every page whose last store was not led astray.
THEOREM FrozenIsVerified == Spec => FreezeIsVerified
<1>1. ASSUME IInv, [Next]_vars, frozen' \in Bundle, frozen' # frozen
      PROVE  OnDevice(frozen')
  <2>1. SwapFrozen \/ AcceptReadBack
    BY <1>1
       DEF Next, vars, StartInstall, StartUpgrade, StartRepair, StartVerify,
           StartRemove, DeleteOldBackup, PublishBackup, CaptureSlot, WriteSlot,
           InspectSlot, StorePage, StoreUnacknowledged, FinishVerify,
           PlanRepair, Abort, PowerCycle, Edit, hostVars
  <2>2. ~AcceptReadBack
    BY <1>1, LifecycleAssumption DEF AcceptReadBack, Deleting
  <2>3. SwapFrozen /\ frozen' = goal /\ command # "clear"
    BY <1>1, <2>1, <2>2, LifecycleAssumption DEF SwapFrozen
  <2>4. OnDevice(goal)
    BY <1>1, <2>3 DEF IInv, AcceptedOK, SwapFrozen
  <2>5. QED
    BY <2>3, <2>4
<1>2. QED
  BY Invariance, <1>1, PTL DEF Spec, FreezeIsVerified

\* A command that ends well leaves the device with what it was about; only a
\* clear takes silence for success, and only verify is content with scripts
\* that are not stored.
THEOREM SuccessOnDevice == Spec => SuccessIsOnDevice
<1> DEFINE promised ==
      CASE command = "verify" -> \A s \in DOMAIN goal : ram[s] = Framed[goal[s]]
        [] command = "clear"  -> TRUE
        [] OTHER              -> OnDevice(goal)
<1>1. ASSUME IInv, [Next]_vars, step # "idle", outcome' = "ok"
      PROVE  promised
  <2>1. outcome # "ok"
    BY <1>1 DEF IInv, CommandOK
  <2>2. SwapFrozen \/ FinishVerify
    BY <1>1, <2>1
       DEF Next, vars, StartInstall, StartUpgrade, StartRepair, StartVerify,
           StartRemove, Issue, DeleteOldBackup, PublishBackup, CaptureSlot,
           WriteSlot, InspectSlot, StorePage, StoreUnacknowledged, PlanRepair,
           AcceptReadBack, End, Abort, PowerCycle, Edit
  <2>3. CASE SwapFrozen
    BY <1>1, <2>3 DEF SwapFrozen, IInv, CommandOK, AcceptedOK
  <2>4. CASE FinishVerify
    <3>1. ExactMatch /\ command = "verify" /\ step = "inspect" /\ slots = {}
      BY <1>1, <2>4 DEF FinishVerify, End
    <3>2. \A s \in DOMAIN goal : ram[s] = Framed[goal[s]]
      BY <1>1, <3>1 DEF IInv, SeenOK, ExactMatch, FoundOnly
    <3>3. QED
      BY <3>1, <3>2
  <2>5. QED
    BY <2>2, <2>3, <2>4
<1>2. QED
  BY Invariance, <1>1, PTL DEF Spec, SuccessIsOnDevice
=============================================================================
