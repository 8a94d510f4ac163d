-------------------------- MODULE FastQNames_proofs --------------------------
(***************************************************************************)
(* Proofs about FastQNames, for any sets of modules, names, clients and    *)
(* copies.                                                                 *)
(*                                                                         *)
(* The argument: the lock has one owner (LockHeld), each manager is the    *)
(* only thread that changes what its own module has (ManagersKnow), a copy *)
(* of a name has one owner (CopiesOwned), so an entry has one too          *)
(* (EntriesOwned), and a name that is attached during a call stays with    *)
(* its bearer until the call returns (ClientKnows).                        *)
(***************************************************************************)
EXTENDS FastQNames, TLAPS

-----------------------------------------------------------------------------
(* What a step does not disturb.                                           *)

\* The entries stay owned if nothing they depend on changes.
LEMMA EntriesKept ==
  ASSUME TypeOK, EntriesOwned,
         entries' = entries, name' = name, text' = text, aborted' = aborted,
         \A m \in Module : Entered(m)' <=> Entered(m)
  PROVE  EntriesOwned'
<1>1. \A e \in entries : e.id \in Module
  BY DEF TypeOK
<1>2. QED
  BY <1>1 DEF EntriesOwned

\* So do the copies.
LEMMA CopiesKept ==
  ASSUME CopiesOwned, name' = name, text' = text,
         \A m \in Module : Owns(m)' <=> Owns(m)
  PROVE  CopiesOwned'
BY DEF CopiesOwned

\* A client that does not move still knows what it knew, if no name that it
\* relies on goes away.
LEMMA ClientKept ==
  ASSUME TypeOK, NEW d \in Client, ClientKnows(d),
         pc'[d] = pc[d], stable'[d] \subseteq stable[d],
         from'[d] = from[d], to'[d] = to[d],
         from_id'[d] = from_id[d], to_id'[d] = to_id[d],
         \A n \in stable'[d] : \A m \in Bearers(n) : pc[m] = "idle" =>
           m \in attached' /\ text'[name'[m]] = n /\ pc'[m] = "idle"
  PROVE  ClientKnows(d)'
<1> DEFINE Still(w, id) ==
       w.text \in stable'[d] =>
         id \in attached' /\ text'[name'[id]] = w.text /\ pc'[id] = "idle"
<1>1. ASSUME NEW w, NEW id, Bears(d, w, id)
      PROVE  Still(w, id)
  BY <1>1 DEF Bears
<1>2. \A n \in stable'[d] : \E m \in Bearers(n)' : pc'[m] = "idle"
  BY DEF ClientKnows, Bearers
<1>3. pc[d] = "refused" =>
       \E w \in {from[d], to[d]} \ {None} : w.text \notin stable'[d] \/ w.byte # 0
  BY DEF ClientKnows
<1>4. /\ pc[d] \in {"find to", "dictFind to", "check from"} /\ from[d] # None =>
           Still(from[d], from_id[d]) \/ (from_id[d] = 0 /\ from[d].byte # 0)
      /\ pc[d] \in {"check from", "check to"} =>
           Still(to[d], to_id[d]) \/ (to_id[d] = 0 /\ to[d].byte # 0)
      /\ pc[d] \in {"check to", "go"} /\ from[d] # None =>
           Still(from[d], from_id[d])
      /\ pc[d] = "go" => Still(to[d], to_id[d])
  <2> HIDE DEF Still
  <2>1. QED
    BY <1>1 DEF ClientKnows
<1>5. \A w, id : Bears(d, w, id)' <=> Still(w, id)
  BY DEF Bears, Bearers
<1>6. QED
  <2> HIDE DEF Still
  <2>1. QED
    BY <1>2, <1>3, <1>4, <1>5 DEF ClientKnows

\* A step of a client does not touch what the managers rely on.
LEMMA ManagersUndisturbed ==
  ASSUME NamesInv, UNCHANGED lifecycle, aborted' = aborted,
         \A m \in Module : pc'[m] = pc[m]
  PROVE  ManagersKnow' /\ CopiesOwned' /\ EntriesOwned'
<1> USE DEF NamesInv, lifecycle
<1>1. ManagersKnow'
  BY DEF ManagersKnow
<1>2. \A m \in Module : (Owns(m)' <=> Owns(m)) /\ (Entered(m)' <=> Entered(m))
  BY DEF Owns, Entered
<1>3. QED
  BY <1>1, <1>2, CopiesKept, EntriesKept

\* A lookup returns a module or 0.
LEMMA FoundType ==
  ASSUME TypeOK, NEW w PROVE Found(w) \subseteq Module \cup {0}
<1> DEFINE found == {e \in entries : text[e.key] = w.text}
<1>1. {e.id : e \in found} \subseteq Module
  BY DEF TypeOK
<1>2. QED
  BY <1>1 DEF Found

\* A lookup finds the module that has borne the name all the time: its entry is
\* there, and no other has the name.
LEMMA FoundIsBearer ==
  ASSUME NamesInv, ~aborted, NEW c \in Client, NEW w, NEW id \in Found(w),
         \A n \in stable[c] : \E m \in Bearers(n) : pc[m] = "idle"
  PROVE  Bears(c, w, id) \/ (id = 0 /\ w.byte # 0)
<1> SUFFICES ASSUME w.text \in stable[c] PROVE Bears(c, w, id) \/ (id = 0 /\ w.byte # 0)
  BY DEF Bears
<1> DEFINE found == {e \in entries : text[e.key] = w.text}
<1>1. PICK m \in Bearers(w.text) : pc[m] = "idle"
  OBVIOUS
<1>2. m \in Module /\ text[name[m]] = w.text /\ [key |-> name[m], id |-> m] \in entries
  BY <1>1 DEF NamesInv, TypeOK, EntriesOwned, Entered, Bearers
<1>3. \A e \in found : e = [key |-> name[m], id |-> m]
  BY <1>2 DEF NamesInv, EntriesOwned
<1>4. {e.id : e \in found} = {m}
  BY <1>2, <1>3
<1>5. id = m \/ (id = 0 /\ w.byte # 0)
  BY <1>4 DEF Found
<1>6. QED
  BY <1>1, <1>5 DEF Bears


-----------------------------------------------------------------------------
(* The managers' steps.                                                    *)

\* A module that is created has no name yet.
LEMMA CreateStep ==
  ASSUME NamesInv, NEW m \in Module, Create(m)
  PROVE  NamesInv'
<1> USE DEF NamesInv, Create, Goto, lifecycle, locals
<1>1. \A t \in Thread \ {m} : pc'[t] = pc[t]
  BY DEF TypeOK
<1>2. m \in Thread /\ \A c \in Client : c \in Thread \ {m}
  BY NamesAssumption DEF Thread
<1>3. TypeOK'
  BY <1>2 DEF TypeOK, ManagersKnow, ManagerAt
<1>4. LockHeld'
  BY <1>1, <1>2, NamesAssumption DEF TypeOK, LockHeld, Section, Thread
<1>5. ManagersKnow'
  BY <1>1, <1>2 DEF TypeOK, ManagersKnow, Thread
<1>6. CopiesOwned'
  <2>1. \A o \in Module : Owns(o)' <=> Owns(o)
    BY <1>1, <1>2 DEF TypeOK, ManagersKnow, Owns, Thread
  <2>2. QED
    BY <2>1, CopiesKept
<1>7. EntriesOwned'
  <2>1. \A o \in Module : Entered(o)' <=> Entered(o)
    BY <1>1, <1>2 DEF TypeOK, ManagersKnow, Entered, Thread
  <2>2. QED
    BY <2>1, EntriesKept
<1>8. ClientsKnow'
  <2>1. \A n \in Name : \A o \in Bearers(n) : pc[o] = "idle" =>
          o \in attached' /\ text'[name'[o]] = n /\ pc'[o] = "idle"
    BY <1>1, <1>2 DEF TypeOK, ManagersKnow, Bearers, Thread
  <2>2. ASSUME NEW d \in Client PROVE ClientKnows(d)'
    BY <1>1, <1>2, <2>1, ClientKept DEF TypeOK, ClientsKnow
  <2>3. QED
    BY <2>2 DEF ClientsKnow
<1>9. QED
  BY <1>3, <1>4, <1>5, <1>6, <1>7, <1>8

\* The copy of the name is new: nobody else's.
LEMMA AttachNameStep ==
  ASSUME NamesInv, NEW m \in Module, NEW n \in Name, AttachName(m, n)
  PROVE  NamesInv'
<1> USE DEF NamesInv, AttachName, Goto, lifecycle, locals
<1>1. \A t \in Thread \ {m} : pc'[t] = pc[t]
  BY DEF TypeOK
<1>2. m \in Thread /\ \A c \in Client : c \in Thread \ {m}
  BY NamesAssumption DEF Thread
<1>3. TypeOK'
  <2>1. PICK c \in Copy : /\ text[c] = None /\ text' = [text EXCEPT ![c] = n]
                          /\ name' = [name EXCEPT ![m] = c]
    OBVIOUS
  <2>2. QED
    BY <1>2, <2>1 DEF TypeOK, ManagersKnow, ManagerAt
<1>4. LockHeld'
  BY <1>1, <1>2, NamesAssumption DEF TypeOK, LockHeld, Section, Thread
<1>5. ManagersKnow'
  BY <1>1, <1>2 DEF TypeOK, ManagersKnow, Thread
<1>6. CopiesOwned'
  <2>1. PICK c \in Copy : /\ text[c] = None /\ text' = [text EXCEPT ![c] = n]
                          /\ name' = [name EXCEPT ![m] = c]
    OBVIOUS
  <2>2. /\ \A o \in Module : Owns(o)' <=> o = m \/ Owns(o)
        /\ ~Owns(m)
    BY <1>1, <1>2 DEF TypeOK, ManagersKnow, Owns, Thread
  <2>3. \A o \in Module : Owns(o) => name[o] \in Copy \ {c} /\ name'[o] = name[o]
    BY <2>1, <2>2, NamesAssumption DEF TypeOK, CopiesOwned
  <2>4. name'[m] = c /\ text'[c] = n
    BY <2>1 DEF TypeOK
  <2>5. \A b \in Copy \ {c} : text'[b] = text[b]
    BY <2>1 DEF TypeOK
  <2>6. \A o \in Module : Owns(o)' => name'[o] \in Copy /\ text'[name'[o]] \in Name
    BY <2>2, <2>3, <2>4, <2>5 DEF CopiesOwned
  <2>7. \A o, q \in Module : Owns(o)' /\ Owns(q)' /\ name'[o] = name'[q] => o = q
    BY <2>2, <2>3, <2>4 DEF CopiesOwned
  <2>8. \A b \in Copy : text'[b] # None => \E o \in Module : Owns(o)' /\ name'[o] = b
    BY <2>2, <2>3, <2>4, <2>5 DEF CopiesOwned
  <2>9. QED
    BY <2>6, <2>7, <2>8 DEF CopiesOwned
<1>7. EntriesOwned'
  <2>1. PICK c \in Copy : /\ text[c] = None /\ text' = [text EXCEPT ![c] = n]
                          /\ name' = [name EXCEPT ![m] = c]
    OBVIOUS
  <2>2. /\ \A o \in Module : Entered(o)' <=> Entered(o)
        /\ ~Entered(m)
    BY <1>1, <1>2 DEF TypeOK, ManagersKnow, Entered, Thread
  <2>3. \A o \in Module : Entered(o) =>
          o # m /\ name'[o] = name[o] /\ text'[name[o]] = text[name[o]]
    <3>1. \A o \in Module : Entered(o) => Owns(o)
      BY DEF Entered, Owns, ManagersKnow
    <3>2. QED
      BY <2>1, <2>2, <3>1, NamesAssumption DEF TypeOK, CopiesOwned
  <2>4. \A e \in entries : e.id \in Module
    BY DEF TypeOK
  <2>5. \A e \in entries : Entered(e.id)' /\ e.key = name'[e.id] /\ text'[e.key] = text[e.key]
    BY <2>2, <2>3, <2>4 DEF EntriesOwned
  <2>6. QED
    BY <2>2, <2>3, <2>5 DEF EntriesOwned
<1>8. ClientsKnow'
  <2>1. PICK c \in Copy : /\ text[c] = None /\ text' = [text EXCEPT ![c] = n]
                          /\ name' = [name EXCEPT ![m] = c]
    OBVIOUS
  <2>2. \A o \in attached : o # m /\ Owns(o)
    BY DEF Owns
  <2>3. \A o \in attached : name'[o] = name[o] /\ text'[name[o]] = text[name[o]]
    BY <2>1, <2>2, NamesAssumption DEF TypeOK, CopiesOwned
  <2>4. \A k \in Name : \A o \in Bearers(k) : pc[o] = "idle" =>
          o \in attached' /\ text'[name'[o]] = k /\ pc'[o] = "idle"
    BY <1>1, <1>2, <2>2, <2>3 DEF TypeOK, Bearers, Thread
  <2>5. ASSUME NEW d \in Client PROVE ClientKnows(d)'
    BY <1>1, <1>2, <2>4, ClientKept DEF TypeOK, ClientsKnow
  <2>6. QED
    BY <2>5 DEF ClientsKnow
<1>9. QED
  BY <1>3, <1>4, <1>5, <1>6, <1>7, <1>8

\* The manager takes dict_spinlock to enter the name.
LEMMA RegisterLockStep ==
  ASSUME NamesInv, NEW m \in Module, RegisterLock(m)
  PROVE  NamesInv'
<1> USE DEF NamesInv, RegisterLock, Acquire, Goto, lifecycle, locals
<1>1. \A t \in Thread \ {m} : pc'[t] = pc[t]
  BY DEF TypeOK
<1>2. m \in Thread /\ \A c \in Client : c \in Thread \ {m}
  BY NamesAssumption DEF Thread
<1>3. TypeOK'
  BY <1>2 DEF TypeOK, ManagersKnow, ManagerAt
<1>4. LockHeld'
  BY <1>1, <1>2, NamesAssumption DEF TypeOK, LockHeld, Section, Thread
<1>5. ManagersKnow'
  BY <1>1, <1>2 DEF TypeOK, ManagersKnow, Thread
<1>6. CopiesOwned'
  <2>1. \A o \in Module : Owns(o)' <=> Owns(o)
    BY <1>1, <1>2 DEF TypeOK, ManagersKnow, Owns, Thread
  <2>2. QED
    BY <2>1, CopiesKept
<1>7. EntriesOwned'
  <2>1. \A o \in Module : Entered(o)' <=> Entered(o)
    BY <1>1, <1>2 DEF TypeOK, ManagersKnow, Entered, Thread
  <2>2. QED
    BY <2>1, EntriesKept
<1>8. ClientsKnow'
  <2>1. \A n \in Name : \A o \in Bearers(n) : pc[o] = "idle" =>
          o \in attached' /\ text'[name'[o]] = n /\ pc'[o] = "idle"
    BY <1>1, <1>2 DEF TypeOK, ManagersKnow, Bearers, Thread
  <2>2. ASSUME NEW d \in Client PROVE ClientKnows(d)'
    BY <1>1, <1>2, <2>1, ClientKept DEF TypeOK, ClientsKnow
  <2>3. QED
    BY <2>2 DEF ClientsKnow
<1>9. QED
  BY <1>3, <1>4, <1>5, <1>6, <1>7, <1>8

\* The entry is made if the name is free; otherwise the process ends.
LEMMA DictAddStep ==
  ASSUME NamesInv, NEW m \in Module, DictAdd(m)
  PROVE  NamesInv'
<1> USE DEF NamesInv, DictAdd, Goto, lifecycle, locals
<1>1. \A t \in Thread \ {m} : pc'[t] = pc[t]
  BY DEF TypeOK
<1>2. m \in Thread /\ \A c \in Client : c \in Thread \ {m}
  BY NamesAssumption DEF Thread
<1>3. TypeOK'
  <2>1. name[m] \in Copy
    BY DEF CopiesOwned, Owns
  <2>2. entries' \subseteq [key : Copy, id : Module]
    BY <2>1 DEF TypeOK
  <2>3. aborted' \in BOOLEAN /\ lock' \in Thread \cup {None}
    BY DEF TypeOK
  <2>4. QED
    BY <1>2, <2>2, <2>3 DEF TypeOK, ManagerAt
<1>4. LockHeld'
  BY <1>1, <1>2, NamesAssumption DEF TypeOK, LockHeld, Section, Thread
<1>5. ManagersKnow'
  BY <1>1, <1>2 DEF TypeOK, ManagersKnow, Thread
<1>6. CopiesOwned'
  <2>1. \A o \in Module : Owns(o)' <=> Owns(o)
    BY <1>1, <1>2 DEF TypeOK, ManagersKnow, Owns, Thread
  <2>2. QED
    BY <2>1, CopiesKept
<1>7. EntriesOwned'
  <2>1. \A o \in Module : Entered(o)' <=> o = m \/ Entered(o)
    BY <1>1, <1>2 DEF TypeOK, Entered, Thread
  <2>2. \A e \in entries : e.id \in Module
    BY DEF TypeOK
  <2>3. CASE \E e \in entries : text[e.key] = text[name[m]]
    BY <2>1, <2>2, <2>3 DEF EntriesOwned
  <2>4. CASE ~\E e \in entries : text[e.key] = text[name[m]]
    <3>1. entries' = entries \cup {[key |-> name[m], id |-> m]} /\ aborted' = FALSE
      BY <2>4
    <3>2. \A e \in entries' : Entered(e.id)' /\ e.key = name[e.id]
      BY <2>1, <2>2, <3>1 DEF EntriesOwned
    <3>3. \A o \in Module : Entered(o)' => [key |-> name[o], id |-> o] \in entries'
      BY <2>1, <3>1 DEF EntriesOwned
    <3>4. \A e, g \in entries' : text[e.key] = text[g.key] => e = g
      BY <2>4, <3>1 DEF EntriesOwned
    <3>5. QED
      BY <3>2, <3>3, <3>4 DEF EntriesOwned
  <2>5. QED
    BY <2>3, <2>4
<1>8. ClientsKnow'
  <2>1. \A n \in Name : \A o \in Bearers(n) : pc[o] = "idle" =>
          o \in attached' /\ text'[name'[o]] = n /\ pc'[o] = "idle"
    BY <1>1, <1>2 DEF TypeOK, ManagersKnow, Bearers, Thread
  <2>2. ASSUME NEW d \in Client PROVE ClientKnows(d)'
    BY <1>1, <1>2, <2>1, ClientKept DEF TypeOK, ClientsKnow
  <2>3. QED
    BY <2>2 DEF ClientsKnow
<1>9. QED
  BY <1>3, <1>4, <1>5, <1>6, <1>7, <1>8

\* The name is attached once it can be found.
LEMMA SetAttachedStep ==
  ASSUME NamesInv, NEW m \in Module, SetAttached(m)
  PROVE  NamesInv'
<1> USE DEF NamesInv, SetAttached, Goto, lifecycle, locals
<1>1. \A t \in Thread \ {m} : pc'[t] = pc[t]
  BY DEF TypeOK
<1>2. m \in Thread /\ \A c \in Client : c \in Thread \ {m}
  BY NamesAssumption DEF Thread
<1>3. TypeOK'
  BY <1>2 DEF TypeOK, ManagersKnow, ManagerAt
<1>4. LockHeld'
  BY <1>1, <1>2, NamesAssumption DEF TypeOK, LockHeld, Section, Thread
<1>5. ManagersKnow'
  BY <1>1, <1>2 DEF TypeOK, ManagersKnow, Thread
<1>6. CopiesOwned'
  <2>1. \A o \in Module : Owns(o)' <=> Owns(o)
    BY <1>1, <1>2 DEF TypeOK, ManagersKnow, Owns, Thread
  <2>2. QED
    BY <2>1, CopiesKept
<1>7. EntriesOwned'
  <2>1. \A o \in Module : Entered(o)' <=> Entered(o)
    BY <1>1, <1>2 DEF TypeOK, ManagersKnow, Entered, Thread
  <2>2. QED
    BY <2>1, EntriesKept
<1>8. ClientsKnow'
  <2>1. \A n \in Name : \A o \in Bearers(n) : pc[o] = "idle" =>
          o \in attached' /\ text'[name'[o]] = n /\ pc'[o] = "idle"
    BY <1>1, <1>2 DEF TypeOK, ManagersKnow, Bearers, Thread
  <2>2. ASSUME NEW d \in Client PROVE ClientKnows(d)'
    BY <1>1, <1>2, <2>1, ClientKept DEF TypeOK, ClientsKnow
  <2>3. QED
    BY <2>2 DEF ClientsKnow
<1>9. QED
  BY <1>3, <1>4, <1>5, <1>6, <1>7, <1>8

\* A name that is being taken away is no longer stable for anyone.
LEMMA DeleteModuleStep ==
  ASSUME NamesInv, NEW m \in Module, DeleteModule(m)
  PROVE  NamesInv'
<1> USE DEF NamesInv, DeleteModule, Goto, lifecycle, locals
<1>1. \A t \in Thread \ {m} : pc'[t] = pc[t]
  BY DEF TypeOK
<1>2. m \in Thread /\ \A c \in Client : c \in Thread \ {m}
  BY NamesAssumption DEF Thread
<1>3. TypeOK'
  <2>1. stable' \in [Client -> SUBSET Name]
    BY DEF TypeOK
  <2>2. QED
    BY <1>2, <2>1 DEF TypeOK, ManagerAt
<1>4. LockHeld'
  BY <1>1, <1>2, NamesAssumption DEF TypeOK, LockHeld, Section, Thread
<1>5. ManagersKnow'
  BY <1>1, <1>2 DEF TypeOK, ManagersKnow, Thread
<1>6. CopiesOwned'
  <2>1. \A o \in Module : Owns(o)' <=> Owns(o)
    BY <1>1, <1>2 DEF TypeOK, ManagersKnow, Owns, Thread
  <2>2. QED
    BY <2>1, CopiesKept
<1>7. EntriesOwned'
  <2>1. \A o \in Module : Entered(o)' <=> Entered(o)
    BY <1>1, <1>2 DEF TypeOK, ManagersKnow, Entered, Thread
  <2>2. QED
    BY <2>1, EntriesKept
<1>8. ClientsKnow'
  <2>1. \A d \in Client : stable'[d] \subseteq stable[d]
    OBVIOUS
  <2>2. \A d \in Client : m \in attached => text[name[m]] \notin stable'[d]
    OBVIOUS
  <2>3. \A d \in Client : \A n \in stable'[d] : \A o \in Bearers(n) : pc[o] = "idle" =>
          o \in attached' /\ text'[name'[o]] = n /\ pc'[o] = "idle"
    BY <1>1, <1>2, <2>2 DEF TypeOK, Bearers, Thread
  <2>4. ASSUME NEW d \in Client PROVE ClientKnows(d)'
    BY <1>1, <1>2, <2>1, <2>3, ClientKept DEF TypeOK, ClientsKnow
  <2>5. QED
    BY <2>4 DEF ClientsKnow
<1>9. QED
  BY <1>3, <1>4, <1>5, <1>6, <1>7, <1>8

\* The manager takes dict_spinlock to remove the name.
LEMMA UnregisterLockStep ==
  ASSUME NamesInv, NEW m \in Module, UnregisterLock(m)
  PROVE  NamesInv'
<1> USE DEF NamesInv, UnregisterLock, Acquire, Goto, lifecycle, locals
<1>1. \A t \in Thread \ {m} : pc'[t] = pc[t]
  BY DEF TypeOK
<1>2. m \in Thread /\ \A c \in Client : c \in Thread \ {m}
  BY NamesAssumption DEF Thread
<1>3. TypeOK'
  BY <1>2 DEF TypeOK, ManagersKnow, ManagerAt
<1>4. LockHeld'
  BY <1>1, <1>2, NamesAssumption DEF TypeOK, LockHeld, Section, Thread
<1>5. ManagersKnow'
  BY <1>1, <1>2 DEF TypeOK, ManagersKnow, Thread
<1>6. CopiesOwned'
  <2>1. \A o \in Module : Owns(o)' <=> Owns(o)
    BY <1>1, <1>2 DEF TypeOK, ManagersKnow, Owns, Thread
  <2>2. QED
    BY <2>1, CopiesKept
<1>7. EntriesOwned'
  <2>1. \A o \in Module : Entered(o)' <=> Entered(o)
    BY <1>1, <1>2 DEF TypeOK, ManagersKnow, Entered, Thread
  <2>2. QED
    BY <2>1, EntriesKept
<1>8. ClientsKnow'
  <2>1. \A n \in Name : \A o \in Bearers(n) : pc[o] = "idle" =>
          o \in attached' /\ text'[name'[o]] = n /\ pc'[o] = "idle"
    BY <1>1, <1>2 DEF TypeOK, ManagersKnow, Bearers, Thread
  <2>2. ASSUME NEW d \in Client PROVE ClientKnows(d)'
    BY <1>1, <1>2, <2>1, ClientKept DEF TypeOK, ClientsKnow
  <2>3. QED
    BY <2>2 DEF ClientsKnow
<1>9. QED
  BY <1>3, <1>4, <1>5, <1>6, <1>7, <1>8

\* The entry of the module goes, and no other.
LEMMA DictDeleteStep ==
  ASSUME NamesInv, NEW m \in Module, DictDelete(m)
  PROVE  NamesInv'
<1> USE DEF NamesInv, DictDelete, Goto, lifecycle, locals
<1>1. \A t \in Thread \ {m} : pc'[t] = pc[t]
  BY DEF TypeOK
<1>2. m \in Thread /\ \A c \in Client : c \in Thread \ {m}
  BY NamesAssumption DEF Thread
<1>3. TypeOK'
  <2>1. aborted' \in BOOLEAN /\ lock' \in Thread \cup {None} /\ entries' \subseteq entries
    BY DEF TypeOK
  <2>2. QED
    BY <1>2, <2>1 DEF TypeOK, ManagerAt
<1>4. LockHeld'
  BY <1>1, <1>2, NamesAssumption DEF TypeOK, LockHeld, Section, Thread
<1>5. ManagersKnow'
  BY <1>1, <1>2 DEF TypeOK, ManagersKnow, Thread
<1>6. CopiesOwned'
  <2>1. \A o \in Module : Owns(o)' <=> Owns(o)
    BY <1>1, <1>2 DEF TypeOK, ManagersKnow, Owns, Thread
  <2>2. QED
    BY <2>1, CopiesKept
<1>7. EntriesOwned'
  <2>1. [key |-> name[m], id |-> m] \in entries
    BY DEF EntriesOwned, Entered
  <2>2. {e \in entries : text[e.key] = text[name[m]]} = {[key |-> name[m], id |-> m]}
    BY <2>1 DEF EntriesOwned
  <2>3. entries' = entries \ {[key |-> name[m], id |-> m]} /\ aborted' = FALSE
    BY <2>2
  <2>4. \A o \in Module : Entered(o)' <=> o # m /\ Entered(o)
    BY <1>1, <1>2 DEF TypeOK, Entered, Thread
  <2>5. \A e \in entries' : e.id \in Module /\ e.id # m
    BY <2>3 DEF TypeOK, EntriesOwned
  <2>6. QED
    BY <2>3, <2>4, <2>5 DEF EntriesOwned
<1>8. ClientsKnow'
  <2>1. \A n \in Name : \A o \in Bearers(n) : pc[o] = "idle" =>
          o \in attached' /\ text'[name'[o]] = n /\ pc'[o] = "idle"
    BY <1>1, <1>2 DEF TypeOK, ManagersKnow, Bearers, Thread
  <2>2. ASSUME NEW d \in Client PROVE ClientKnows(d)'
    BY <1>1, <1>2, <2>1, ClientKept DEF TypeOK, ClientsKnow
  <2>3. QED
    BY <2>2 DEF ClientsKnow
<1>9. QED
  BY <1>3, <1>4, <1>5, <1>6, <1>7, <1>8

\* The copy is freed after its entry.
LEMMA FreeNameStep ==
  ASSUME NamesInv, NEW m \in Module, FreeName(m)
  PROVE  NamesInv'
<1> USE DEF NamesInv, FreeName, Goto, lifecycle, locals
<1>1. \A t \in Thread \ {m} : pc'[t] = pc[t]
  BY DEF TypeOK
<1>2. m \in Thread /\ \A c \in Client : c \in Thread \ {m}
  BY NamesAssumption DEF Thread
<1>3. TypeOK'
  <2>1. text' \in [Copy -> Name \cup {None}] /\ attached' \subseteq registered
    BY DEF TypeOK
  <2>2. QED
    BY <1>2, <2>1 DEF TypeOK, ManagerAt
<1>4. LockHeld'
  BY <1>1, <1>2, NamesAssumption DEF TypeOK, LockHeld, Section, Thread
<1>5. ManagersKnow'
  BY <1>1, <1>2 DEF TypeOK, ManagersKnow, Thread
<1>6. CopiesOwned'
  <2>1. \A o \in Module : Owns(o)' <=> o # m /\ Owns(o)
    BY <1>1, <1>2 DEF TypeOK, Owns, Thread
  <2>2. Owns(m) /\ name[m] \in Copy
    BY DEF CopiesOwned, ManagersKnow, Owns
  <2>3. \A o \in Module : o # m /\ Owns(o) => name[o] # name[m]
    BY <2>2 DEF CopiesOwned
  <2>4. \A c \in Copy : text'[c] = IF c = name[m] THEN None ELSE text[c]
    BY DEF TypeOK
  <2>5. QED
    BY <2>1, <2>2, <2>3, <2>4 DEF CopiesOwned
<1>7. EntriesOwned'
  <2>1. \A o \in Module : Entered(o)' <=> Entered(o)
    BY <1>1, <1>2 DEF TypeOK, Entered, Thread
  <2>2. \A o \in Module : Entered(o) => o # m /\ Owns(o)
    BY DEF Entered, Owns, ManagersKnow
  <2>3. Owns(m) /\ name[m] \in Copy
    BY DEF CopiesOwned, ManagersKnow, Owns
  <2>4. \A o \in Module : Entered(o) => text'[name[o]] = text[name[o]]
    BY <2>2, <2>3 DEF TypeOK, CopiesOwned
  <2>5. \A e \in entries : e.id \in Module /\ text'[e.key] = text[e.key]
    BY <2>4 DEF TypeOK, EntriesOwned
  <2>6. QED
    BY <2>1, <2>5 DEF EntriesOwned
<1>8. ClientsKnow'
  <2>1. Owns(m) /\ name[m] \in Copy
    BY DEF CopiesOwned, ManagersKnow, Owns
  <2>2. \A o \in attached \ {m} : text'[name[o]] = text[name[o]]
    BY <2>1 DEF TypeOK, CopiesOwned, Owns
  <2>3. \A n \in Name : \A o \in Bearers(n) : pc[o] = "idle" =>
          o \in attached' /\ text'[name'[o]] = n /\ pc'[o] = "idle"
    BY <1>1, <1>2, <2>2 DEF TypeOK, Bearers, Thread
  <2>4. ASSUME NEW d \in Client PROVE ClientKnows(d)'
    BY <1>1, <1>2, <2>3, ClientKept DEF TypeOK, ClientsKnow
  <2>5. QED
    BY <2>4 DEF ClientsKnow
<1>9. QED
  BY <1>3, <1>4, <1>5, <1>6, <1>7, <1>8

\* The module is unregistered without a name.
LEMMA UnpublishStep ==
  ASSUME NamesInv, NEW m \in Module, Unpublish(m)
  PROVE  NamesInv'
<1> USE DEF NamesInv, Unpublish, Goto, lifecycle, locals
<1>1. \A t \in Thread \ {m} : pc'[t] = pc[t]
  BY DEF TypeOK
<1>2. m \in Thread /\ \A c \in Client : c \in Thread \ {m}
  BY NamesAssumption DEF Thread
<1>3. TypeOK'
  BY <1>2 DEF TypeOK, ManagersKnow, ManagerAt
<1>4. LockHeld'
  BY <1>1, <1>2, NamesAssumption DEF TypeOK, LockHeld, Section, Thread
<1>5. ManagersKnow'
  BY <1>1, <1>2 DEF TypeOK, ManagersKnow, Thread
<1>6. CopiesOwned'
  <2>1. \A o \in Module : Owns(o)' <=> Owns(o)
    BY <1>1, <1>2 DEF TypeOK, ManagersKnow, Owns, Thread
  <2>2. QED
    BY <2>1, CopiesKept
<1>7. EntriesOwned'
  <2>1. \A o \in Module : Entered(o)' <=> Entered(o)
    BY <1>1, <1>2 DEF TypeOK, ManagersKnow, Entered, Thread
  <2>2. QED
    BY <2>1, EntriesKept
<1>8. ClientsKnow'
  <2>1. \A n \in Name : \A o \in Bearers(n) : pc[o] = "idle" =>
          o \in attached' /\ text'[name'[o]] = n /\ pc'[o] = "idle"
    BY <1>1, <1>2 DEF TypeOK, ManagersKnow, Bearers, Thread
  <2>2. ASSUME NEW d \in Client PROVE ClientKnows(d)'
    BY <1>1, <1>2, <2>1, ClientKept DEF TypeOK, ClientsKnow
  <2>3. QED
    BY <2>2 DEF ClientsKnow
<1>9. QED
  BY <1>3, <1>4, <1>5, <1>6, <1>7, <1>8

-----------------------------------------------------------------------------
(* The clients' steps.                                                     *)

\* A call takes note of the names that are attached.
LEMMA SendByNameStep ==
  ASSUME NamesInv, NEW c \in Client, SendByName(c)
  PROVE  NamesInv'
<1> USE DEF NamesInv, SendByName, Call, Goto, locals
<1>1. \A t \in Thread \ {c} : pc'[t] = pc[t]
  BY DEF TypeOK
<1>2. c \in Thread /\ \A m \in Module : m \in Thread \ {c}
  BY NamesAssumption DEF Thread
<1>3. \A n : Bearers(n)' = Bearers(n) /\ Bearers(n) \subseteq Module
  BY DEF TypeOK, Bearers, lifecycle
<1>4. TypeOK'
  <2>1. pc' \in [Thread -> ManagerAt \cup ClientAt] /\ pc'[c] \in ClientAt
    BY <1>2 DEF TypeOK, ClientAt
  <2>2. /\ from' \in [Client -> String \cup {None}] /\ to' \in [Client -> String \cup {None}]
    <3>1. PICK f \in String \cup {None}, t \in String :
            from' = [from EXCEPT ![c] = f] /\ to' = [to EXCEPT ![c] = t]
      OBVIOUS
    <3>2. QED
      BY <3>1 DEF TypeOK
  <2>3. stable' \in [Client -> SUBSET Name]
    <3>1. {n \in Name : \E m \in Bearers(n) : pc[m] = "idle"} \in SUBSET Name
      OBVIOUS
    <3>2. QED
      BY <3>1 DEF TypeOK
  <2>4. QED
    BY <1>1, <1>2, <2>1, <2>2, <2>3 DEF TypeOK, Thread, lifecycle
<1>5. LockHeld'
  BY <1>1, <1>2 DEF TypeOK, LockHeld, Section, Thread
<1>6. ManagersKnow' /\ CopiesOwned' /\ EntriesOwned'
  BY <1>1, <1>2, ManagersUndisturbed
<1>7. ASSUME NEW d \in Client \ {c} PROVE ClientKnows(d)'
  BY <1>1, <1>2, ClientKept DEF TypeOK, ClientsKnow, Bearers, Thread, lifecycle
<1>8. ClientKnows(c)'
  <2>1. from'[c] \in String /\ to'[c] \in String /\ pc'[c] = "find from"
    BY <1>2 DEF TypeOK
  <2>2. stable'[c] = {n \in Name : \E m \in Bearers(n) : pc[m] = "idle"}
    BY DEF TypeOK
  <2>3. \A n \in stable'[c] : \E m \in Bearers(n)' : pc'[m] = "idle"
    BY <1>3, <1>1, <1>2, <2>2
  <2>4. QED
    BY <2>1, <2>3 DEF ClientKnows
<1>9. QED
  BY <1>4, <1>5, <1>6, <1>7, <1>8 DEF ClientsKnow

\* FastQRecvByName has one name.
LEMMA RecvByNameStep ==
  ASSUME NamesInv, NEW c \in Client, RecvByName(c)
  PROVE  NamesInv'
<1> USE DEF NamesInv, RecvByName, Call, Goto, locals
<1>1. \A t \in Thread \ {c} : pc'[t] = pc[t]
  BY DEF TypeOK
<1>2. c \in Thread /\ \A m \in Module : m \in Thread \ {c}
  BY NamesAssumption DEF Thread
<1>3. \A n : Bearers(n)' = Bearers(n) /\ Bearers(n) \subseteq Module
  BY DEF TypeOK, Bearers, lifecycle
<1>4. TypeOK'
  <2>1. pc' \in [Thread -> ManagerAt \cup ClientAt] /\ pc'[c] \in ClientAt
    BY <1>2 DEF TypeOK, ClientAt
  <2>2. /\ from' \in [Client -> String \cup {None}] /\ to' \in [Client -> String \cup {None}]
    <3>1. PICK f \in String \cup {None}, t \in String :
            from' = [from EXCEPT ![c] = f] /\ to' = [to EXCEPT ![c] = t]
      OBVIOUS
    <3>2. QED
      BY <3>1 DEF TypeOK
  <2>3. stable' \in [Client -> SUBSET Name]
    <3>1. {n \in Name : \E m \in Bearers(n) : pc[m] = "idle"} \in SUBSET Name
      OBVIOUS
    <3>2. QED
      BY <3>1 DEF TypeOK
  <2>4. QED
    BY <1>1, <1>2, <2>1, <2>2, <2>3 DEF TypeOK, Thread, lifecycle
<1>5. LockHeld'
  BY <1>1, <1>2 DEF TypeOK, LockHeld, Section, Thread
<1>6. ManagersKnow' /\ CopiesOwned' /\ EntriesOwned'
  BY <1>1, <1>2, ManagersUndisturbed
<1>7. ASSUME NEW d \in Client \ {c} PROVE ClientKnows(d)'
  BY <1>1, <1>2, ClientKept DEF TypeOK, ClientsKnow, Bearers, Thread, lifecycle
<1>8. ClientKnows(c)'
  <2>1. from'[c] = None /\ to'[c] \in String /\ pc'[c] = "find to"
    BY <1>2 DEF TypeOK
  <2>2. stable'[c] = {n \in Name : \E m \in Bearers(n) : pc[m] = "idle"}
    BY DEF TypeOK
  <2>3. \A n \in stable'[c] : \E m \in Bearers(n)' : pc'[m] = "idle"
    BY <1>3, <1>1, <1>2, <2>2
  <2>4. QED
    BY <2>1, <2>3 DEF ClientKnows
<1>9. QED
  BY <1>4, <1>5, <1>6, <1>7, <1>8 DEF ClientsKnow

\* The client takes dict_spinlock for a lookup.
LEMMA FindLockStep ==
  ASSUME NamesInv, NEW c \in Client, FindLock(c)
  PROVE  NamesInv'
<1> USE DEF NamesInv, FindLock, Acquire, Goto, locals
<1>1. \A t \in Thread \ {c} : pc'[t] = pc[t]
  BY DEF TypeOK
<1>2. c \in Thread /\ \A m \in Module : m \in Thread \ {c}
  BY NamesAssumption DEF Thread
<1>3. \A n : Bearers(n)' = Bearers(n) /\ Bearers(n) \subseteq Module
  BY DEF TypeOK, Bearers, lifecycle
<1>4. TypeOK'
  <2>1. pc' \in [Thread -> ManagerAt \cup ClientAt] /\ pc'[c] \in ClientAt
    BY <1>2 DEF TypeOK, ClientAt
  <2>2. lock' \in Thread \cup {None}
    BY <1>2, NamesAssumption DEF TypeOK
  <2>3. QED
    BY <1>1, <1>2, <2>1, <2>2 DEF TypeOK, Thread, lifecycle
<1>5. LockHeld'
  <2>1. lock = None /\ lock' = c
    OBVIOUS
  <2>2. \A t \in Thread : pc[t] \notin Section
    BY <2>1, NamesAssumption DEF LockHeld
  <2>3. QED
    BY <1>1, <1>2, <2>1, <2>2 DEF LockHeld
<1>6. ManagersKnow' /\ CopiesOwned' /\ EntriesOwned'
  BY <1>1, <1>2, ManagersUndisturbed
<1>7. ASSUME NEW d \in Client \ {c} PROVE ClientKnows(d)'
  BY <1>1, <1>2, ClientKept DEF TypeOK, ClientsKnow, Bearers, Thread, lifecycle
<1>8. ClientKnows(c)'
  <2>1. stable' = stable /\ from' = from /\ to' = to
    BY DEF lifecycle
  <2>2. \A w, id : Bears(c, w, id)' <=> Bears(c, w, id)
    BY <1>3, <1>1, <1>2, <2>1 DEF Bears
  <2>3. \A n \in stable'[c] : \E m \in Bearers(n)' : pc'[m] = "idle"
    <3>1. \A n \in stable[c] : \E m \in Bearers(n) : pc[m] = "idle"
      BY DEF ClientsKnow, ClientKnows
    <3>2. QED
      BY <1>3, <1>1, <1>2, <2>1, <3>1
  <2>4. QED
    BY <1>2, <2>1, <2>2, <2>3 DEF TypeOK, ClientsKnow, ClientKnows
<1>9. QED
  BY <1>4, <1>5, <1>6, <1>7, <1>8 DEF ClientsKnow

\* A name that has been attached all the time is found.
LEMMA FindFromStep ==
  ASSUME NamesInv, NEW c \in Client, FindFrom(c)
  PROVE  NamesInv'
<1> USE DEF NamesInv, FindFrom, Goto, locals
<1>1. \A t \in Thread \ {c} : pc'[t] = pc[t]
  BY DEF TypeOK
<1>2. c \in Thread /\ \A m \in Module : m \in Thread \ {c}
  BY NamesAssumption DEF Thread
<1>3. \A n : Bearers(n)' = Bearers(n) /\ Bearers(n) \subseteq Module
  BY DEF TypeOK, Bearers, lifecycle
<1>4. TypeOK'
  <2>1. pc' \in [Thread -> ManagerAt \cup ClientAt] /\ pc'[c] \in ClientAt
    BY <1>2 DEF TypeOK, ClientAt
  <2>2. from_id' \in [Client -> Module \cup {0}]
    BY FoundType DEF TypeOK
  <2>3. QED
    BY <1>1, <1>2, <2>1, <2>2 DEF TypeOK, Thread, lifecycle
<1>5. LockHeld'
  BY <1>1, <1>2 DEF TypeOK, LockHeld, Section, Thread
<1>6. ManagersKnow' /\ CopiesOwned' /\ EntriesOwned'
  BY <1>1, <1>2, ManagersUndisturbed
<1>7. ASSUME NEW d \in Client \ {c} PROVE ClientKnows(d)'
  BY <1>1, <1>2, ClientKept DEF TypeOK, ClientsKnow, Bearers, Thread, lifecycle
<1>8. ClientKnows(c)'
  <2>1. stable' = stable /\ from' = from /\ to' = to
    BY DEF lifecycle
  <2>2. \A w, id : Bears(c, w, id)' <=> Bears(c, w, id)
    BY <1>3, <1>1, <1>2, <2>1 DEF Bears
  <2>3. \A n \in stable'[c] : \E m \in Bearers(n)' : pc'[m] = "idle"
    <3>1. \A n \in stable[c] : \E m \in Bearers(n) : pc[m] = "idle"
      BY DEF ClientsKnow, ClientKnows
    <3>2. QED
      BY <1>3, <1>1, <1>2, <2>1, <3>1
  <2>4. PICK id \in Found(from[c]) : from_id' = [from_id EXCEPT ![c] = id]
    OBVIOUS
  <2>5. Bears(c, from[c], id) \/ (id = 0 /\ from[c].byte # 0)
    BY <2>4, FoundIsBearer DEF ClientsKnow, ClientKnows
  <2>6. from_id'[c] = id /\ pc'[c] = "find to" /\ to[c] \in String
    BY <1>2, <2>4 DEF TypeOK, ClientsKnow, ClientKnows
  <2>7. QED
    BY <2>1, <2>2, <2>3, <2>5, <2>6 DEF ClientKnows
<1>9. QED
  BY <1>4, <1>5, <1>6, <1>7, <1>8 DEF ClientsKnow

\* So is the second one.
LEMMA FindToStep ==
  ASSUME NamesInv, NEW c \in Client, FindTo(c)
  PROVE  NamesInv'
<1> USE DEF NamesInv, FindTo, Goto, locals
<1>1. \A t \in Thread \ {c} : pc'[t] = pc[t]
  BY DEF TypeOK
<1>2. c \in Thread /\ \A m \in Module : m \in Thread \ {c}
  BY NamesAssumption DEF Thread
<1>3. \A n : Bearers(n)' = Bearers(n) /\ Bearers(n) \subseteq Module
  BY DEF TypeOK, Bearers, lifecycle
<1>4. TypeOK'
  <2>1. pc' \in [Thread -> ManagerAt \cup ClientAt] /\ pc'[c] \in ClientAt
    BY <1>2 DEF TypeOK, ClientAt
  <2>2. to_id' \in [Client -> Module \cup {0}]
    BY FoundType DEF TypeOK
  <2>3. QED
    BY <1>1, <1>2, <2>1, <2>2 DEF TypeOK, Thread, lifecycle
<1>5. LockHeld'
  BY <1>1, <1>2 DEF TypeOK, LockHeld, Section, Thread
<1>6. ManagersKnow' /\ CopiesOwned' /\ EntriesOwned'
  BY <1>1, <1>2, ManagersUndisturbed
<1>7. ASSUME NEW d \in Client \ {c} PROVE ClientKnows(d)'
  BY <1>1, <1>2, ClientKept DEF TypeOK, ClientsKnow, Bearers, Thread, lifecycle
<1>8. ClientKnows(c)'
  <2>1. stable' = stable /\ from' = from /\ to' = to
    BY DEF lifecycle
  <2>2. \A w, id : Bears(c, w, id)' <=> Bears(c, w, id)
    BY <1>3, <1>1, <1>2, <2>1 DEF Bears
  <2>3. \A n \in stable'[c] : \E m \in Bearers(n)' : pc'[m] = "idle"
    <3>1. \A n \in stable[c] : \E m \in Bearers(n) : pc[m] = "idle"
      BY DEF ClientsKnow, ClientKnows
    <3>2. QED
      BY <1>3, <1>1, <1>2, <2>1, <3>1
  <2>4. PICK id \in Found(to[c]) : to_id' = [to_id EXCEPT ![c] = id]
    OBVIOUS
  <2>5. Bears(c, to[c], id) \/ (id = 0 /\ to[c].byte # 0)
    BY <2>4, FoundIsBearer DEF ClientsKnow, ClientKnows
  <2>6. /\ to_id'[c] = id /\ from_id' = from_id /\ to[c] \in String
        /\ pc'[c] = IF from[c] = None THEN "check to" ELSE "check from"
    BY <1>2, <2>4 DEF TypeOK, ClientsKnow, ClientKnows
  <2>7. from[c] # None =>
          \/ Bears(c, from[c], from_id[c])
          \/ from_id[c] = 0 /\ from[c].byte # 0
    BY DEF ClientsKnow, ClientKnows
  <2>8. Bears(c, to[c], to_id[c])' \/ (to_id'[c] = 0 /\ to'[c].byte # 0)
    BY <1>3, <1>1, <1>2, <2>1, <2>5, <2>6 DEF Bears
  <2>9. CASE from[c] = None
    <3>1. pc'[c] = "check to" /\ from'[c] = None
      BY <2>1, <2>6, <2>9
    <3>2. QED
      BY <2>1, <2>3, <2>6, <2>8, <3>1 DEF ClientKnows
  <2>10. CASE from[c] # None
    <3>1. pc'[c] = "check from"
      BY <2>6, <2>10
    <3>2. Bears(c, from[c], from_id[c])' \/ (from_id'[c] = 0 /\ from'[c].byte # 0)
      BY <1>3, <1>1, <1>2, <2>1, <2>6, <2>7, <2>10 DEF Bears
    <3>3. from'[c] \in String /\ to'[c] \in String
      BY <2>1, <2>6, <2>10 DEF TypeOK
    <3>4. QED
      BY <2>3, <2>8, <3>1, <3>2, <3>3 DEF ClientKnows
  <2>11. QED
    BY <2>9, <2>10
<1>9. QED
  BY <1>4, <1>5, <1>6, <1>7, <1>8 DEF ClientsKnow

\* The module that was found is still registered.
LEMMA CheckFromStep ==
  ASSUME NamesInv, NEW c \in Client, CheckFrom(c)
  PROVE  NamesInv'
<1> USE DEF NamesInv, CheckFrom, Goto, locals
<1>1. \A t \in Thread \ {c} : pc'[t] = pc[t]
  BY DEF TypeOK
<1>2. c \in Thread /\ \A m \in Module : m \in Thread \ {c}
  BY NamesAssumption DEF Thread
<1>3. \A n : Bearers(n)' = Bearers(n) /\ Bearers(n) \subseteq Module
  BY DEF TypeOK, Bearers, lifecycle
<1>4. TypeOK'
  BY <1>1, <1>2 DEF TypeOK, ClientAt, Thread, lifecycle
<1>5. LockHeld'
  BY <1>1, <1>2 DEF TypeOK, LockHeld, Section, Thread
<1>6. ManagersKnow' /\ CopiesOwned' /\ EntriesOwned'
  BY <1>1, <1>2, ManagersUndisturbed
<1>7. ASSUME NEW d \in Client \ {c} PROVE ClientKnows(d)'
  BY <1>1, <1>2, ClientKept DEF TypeOK, ClientsKnow, Bearers, Thread, lifecycle
<1>8. ClientKnows(c)'
  <2>1. stable' = stable /\ from' = from /\ to' = to
    BY DEF lifecycle
  <2>2. \A w, id : Bears(c, w, id)' <=> Bears(c, w, id)
    BY <1>3, <1>1, <1>2, <2>1 DEF Bears
  <2>3. \A n \in stable'[c] : \E m \in Bearers(n)' : pc'[m] = "idle"
    <3>1. \A n \in stable[c] : \E m \in Bearers(n) : pc[m] = "idle"
      BY DEF ClientsKnow, ClientKnows
    <3>2. QED
      BY <1>3, <1>1, <1>2, <2>1, <3>1
  <2>4. /\ from_id' = from_id /\ to_id' = to_id
        /\ pc'[c] = IF from_id[c] \in registered THEN "check to" ELSE "refused"
    BY <1>2 DEF TypeOK
  <2>5. /\ from[c] \in String /\ to[c] \in String /\ from[c] # None
        /\ Bears(c, from[c], from_id[c]) \/ (from_id[c] = 0 /\ from[c].byte # 0)
        /\ Bears(c, to[c], to_id[c]) \/ (to_id[c] = 0 /\ to[c].byte # 0)
    BY NamesAssumption DEF ClientsKnow, ClientKnows
  <2>6. CASE from_id[c] \in registered
    <3>1. Bears(c, from[c], from_id[c])
      BY <2>5, <2>6, NamesAssumption DEF TypeOK
    <3>2. pc'[c] = "check to"
      BY <2>4, <2>6
    <3>3. QED
      BY <2>1, <2>2, <2>3, <2>4, <2>5, <3>1, <3>2 DEF ClientKnows
  <2>7. CASE from_id[c] \notin registered
    <3>1. from[c].text \notin stable[c] \/ from[c].byte # 0
      BY <2>5, <2>7 DEF Bears, Bearers, TypeOK
    <3>2. pc'[c] = "refused"
      BY <2>4, <2>7
    <3>3. \E s \in {from'[c], to'[c]} \ {None} : s.text \notin stable'[c] \/ s.byte # 0
      BY <2>1, <2>5, <3>1
    <3>4. QED
      BY <2>1, <2>3, <2>5, <3>2, <3>3 DEF ClientKnows
  <2>8. QED
    BY <2>6, <2>7
<1>9. QED
  BY <1>4, <1>5, <1>6, <1>7, <1>8 DEF ClientsKnow

\* And the second one.
LEMMA CheckToStep ==
  ASSUME NamesInv, NEW c \in Client, CheckTo(c)
  PROVE  NamesInv'
<1> USE DEF NamesInv, CheckTo, Goto, locals
<1>1. \A t \in Thread \ {c} : pc'[t] = pc[t]
  BY DEF TypeOK
<1>2. c \in Thread /\ \A m \in Module : m \in Thread \ {c}
  BY NamesAssumption DEF Thread
<1>3. \A n : Bearers(n)' = Bearers(n) /\ Bearers(n) \subseteq Module
  BY DEF TypeOK, Bearers, lifecycle
<1>4. TypeOK'
  BY <1>1, <1>2 DEF TypeOK, ClientAt, Thread, lifecycle
<1>5. LockHeld'
  BY <1>1, <1>2 DEF TypeOK, LockHeld, Section, Thread
<1>6. ManagersKnow' /\ CopiesOwned' /\ EntriesOwned'
  BY <1>1, <1>2, ManagersUndisturbed
<1>7. ASSUME NEW d \in Client \ {c} PROVE ClientKnows(d)'
  BY <1>1, <1>2, ClientKept DEF TypeOK, ClientsKnow, Bearers, Thread, lifecycle
<1>8. ClientKnows(c)'
  <2>1. stable' = stable /\ from' = from /\ to' = to
    BY DEF lifecycle
  <2>2. \A w, id : Bears(c, w, id)' <=> Bears(c, w, id)
    BY <1>3, <1>1, <1>2, <2>1 DEF Bears
  <2>3. \A n \in stable'[c] : \E m \in Bearers(n)' : pc'[m] = "idle"
    <3>1. \A n \in stable[c] : \E m \in Bearers(n) : pc[m] = "idle"
      BY DEF ClientsKnow, ClientKnows
    <3>2. QED
      BY <1>3, <1>1, <1>2, <2>1, <3>1
  <2>4. /\ from_id' = from_id /\ to_id' = to_id
        /\ pc'[c] = IF to_id[c] \in registered THEN "go" ELSE "refused"
    BY <1>2 DEF TypeOK
  <2>5. /\ to[c] \in String /\ to[c] # None
        /\ Bears(c, to[c], to_id[c]) \/ (to_id[c] = 0 /\ to[c].byte # 0)
        /\ from[c] # None => Bears(c, from[c], from_id[c])
    BY NamesAssumption DEF ClientsKnow, ClientKnows
  <2>6. CASE to_id[c] \in registered
    <3>1. Bears(c, to[c], to_id[c])
      BY <2>5, <2>6, NamesAssumption DEF TypeOK
    <3>2. pc'[c] = "go"
      BY <2>4, <2>6
    <3>3. QED
      BY <2>1, <2>2, <2>3, <2>4, <2>5, <3>1, <3>2 DEF ClientKnows
  <2>7. CASE to_id[c] \notin registered
    <3>1. to[c].text \notin stable[c] \/ to[c].byte # 0
      BY <2>5, <2>7 DEF Bears, Bearers, TypeOK
    <3>2. pc'[c] = "refused"
      BY <2>4, <2>7
    <3>3. \E s \in {from'[c], to'[c]} \ {None} : s.text \notin stable'[c] \/ s.byte # 0
      BY <2>1, <2>5, <3>1
    <3>4. QED
      BY <2>1, <2>3, <2>5, <3>2, <3>3 DEF ClientKnows
  <2>8. QED
    BY <2>6, <2>7
<1>9. QED
  BY <1>4, <1>5, <1>6, <1>7, <1>8 DEF ClientsKnow

\* The call is over.
LEMMA ReturnStep ==
  ASSUME NamesInv, NEW c \in Client, Return(c)
  PROVE  NamesInv'
<1> USE DEF NamesInv, Return, Goto, locals
<1>1. \A t \in Thread \ {c} : pc'[t] = pc[t]
  BY DEF TypeOK
<1>2. c \in Thread /\ \A m \in Module : m \in Thread \ {c}
  BY NamesAssumption DEF Thread
<1>3. \A n : Bearers(n)' = Bearers(n) /\ Bearers(n) \subseteq Module
  BY DEF TypeOK, Bearers, lifecycle
<1>4. TypeOK'
  <2>1. pc' \in [Thread -> ManagerAt \cup ClientAt] /\ pc'[c] \in ClientAt
    BY <1>2 DEF TypeOK, ClientAt
  <2>2. /\ from' \in [Client -> String \cup {None}] /\ to' \in [Client -> String \cup {None}]
        /\ from_id' \in [Client -> Module \cup {0}] /\ to_id' \in [Client -> Module \cup {0}]
        /\ stable' \in [Client -> SUBSET Name]
    BY NamesAssumption DEF TypeOK
  <2>3. QED
    BY <1>1, <1>2, <2>1, <2>2 DEF TypeOK, Thread, lifecycle
<1>5. LockHeld'
  BY <1>1, <1>2 DEF TypeOK, LockHeld, Section, Thread
<1>6. ManagersKnow' /\ CopiesOwned' /\ EntriesOwned'
  BY <1>1, <1>2, ManagersUndisturbed
<1>7. ASSUME NEW d \in Client \ {c} PROVE ClientKnows(d)'
  BY <1>1, <1>2, ClientKept DEF TypeOK, ClientsKnow, Bearers, Thread, lifecycle
<1>8. ClientKnows(c)'
  <2>1. stable'[c] = {} /\ pc'[c] = "idle"
    BY <1>2 DEF TypeOK
  <2>2. QED
    BY <2>1 DEF ClientKnows
<1>9. QED
  BY <1>4, <1>5, <1>6, <1>7, <1>8 DEF ClientsKnow

-----------------------------------------------------------------------------
(* The theorems.                                                           *)

\* Nothing is there at first.
LEMMA InitNamesInv == Init => NamesInv
<1> SUFFICES ASSUME Init PROVE NamesInv
  OBVIOUS
<1> USE NamesAssumption DEF Init, NamesInv, Thread
<1>1. TypeOK
  BY DEF TypeOK, ManagerAt, ClientAt
<1>2. LockHeld /\ ManagersKnow
  BY DEF LockHeld, Section, ManagersKnow
<1>3. CopiesOwned /\ EntriesOwned
  BY DEF CopiesOwned, EntriesOwned, Owns, Entered
<1>4. ClientsKnow
  BY DEF ClientsKnow, ClientKnows
<1>5. QED
  BY <1>1, <1>2, <1>3, <1>4

\* A step that changes nothing keeps the invariant.
LEMMA NamesStutter ==
  ASSUME NamesInv, UNCHANGED vars
  PROVE  NamesInv'
<1> USE DEF vars, lifecycle, locals, NamesInv
<1>1. TypeOK' /\ LockHeld'
  BY DEF TypeOK, LockHeld
<1>2. ManagersKnow' /\ CopiesOwned' /\ EntriesOwned'
  BY ManagersUndisturbed
<1>3. ASSUME NEW d \in Client PROVE ClientKnows(d)'
  BY ClientKept DEF ClientsKnow, Bearers
<1>4. QED
  BY <1>1, <1>2, <1>3 DEF ClientsKnow

\* Every step of the program keeps the invariant.
LEMMA NamesInvStep == NamesInv /\ [Next]_vars => NamesInv'
<1> SUFFICES ASSUME NamesInv, [Next]_vars PROVE NamesInv'
  OBVIOUS
<1>1. CASE \E m \in Module :
             \/ Create(m) \/ DeleteModule(m)
             \/ \E n \in Name : AttachName(m, n)
             \/ RegisterLock(m) \/ DictAdd(m) \/ SetAttached(m)
             \/ UnregisterLock(m) \/ DictDelete(m) \/ FreeName(m) \/ Unpublish(m)
  BY <1>1, CreateStep, DeleteModuleStep, AttachNameStep, RegisterLockStep,
     DictAddStep, SetAttachedStep, UnregisterLockStep, DictDeleteStep,
     FreeNameStep, UnpublishStep
<1>2. CASE \E c \in Client :
             \/ SendByName(c) \/ RecvByName(c) \/ FindLock(c)
             \/ FindFrom(c) \/ FindTo(c) \/ CheckFrom(c) \/ CheckTo(c) \/ Return(c)
  BY <1>2, SendByNameStep, RecvByNameStep, FindLockStep, FindFromStep,
     FindToStep, CheckFromStep, CheckToStep, ReturnStep
<1>3. CASE UNCHANGED vars
  BY <1>3, NamesStutter
<1>4. QED
  BY <1>1, <1>2, <1>3 DEF Next

\* FastQAttachName, FastQDeleteModule and the ...ByName calls keep the
\* invariant of the names, for any number of modules, names and clients.
THEOREM NamesInvariant == Spec => []NamesInv
<1>1. QED
  BY InitNamesInv, NamesInvStep, PTL DEF Spec

\* dict_spinlock makes every access to dictModuleNameID exclusive.
THEOREM DictionaryIsExclusive == Spec => []DictionaryExclusive
<1>1. NamesInv => DictionaryExclusive
  BY DEF NamesInv, LockHeld, DictionaryExclusive
<1>2. QED
  BY <1>1, NamesInvariant, PTL

\* Between the calls of a manager its module has an entry if and only if its
\* name is attached; keys of entries are never freed, names never doubled,
\* copies never lost.
THEOREM NamesDoAgree == Spec => []NamesAgree
<1>1. NamesInv => NamesAgree
  <2> SUFFICES ASSUME NamesInv PROVE NamesAgree
    OBVIOUS
  <2>1. ASSUME NEW m \in Module, pc[m] \in {"idle", "free", "unpublish"}, ~aborted
        PROVE  {e \in entries : e.id = m}
                 = IF m \in attached /\ pc[m] = "idle"
                   THEN {[key |-> name[m], id |-> m]} ELSE {}
    <3>1. \A e \in entries : e = [key |-> e.key, id |-> e.id]
      BY DEF NamesInv, TypeOK
    <3>2. CASE m \in attached /\ pc[m] = "idle"
      BY <2>1, <3>1, <3>2 DEF NamesInv, EntriesOwned, Entered
    <3>3. CASE ~(m \in attached /\ pc[m] = "idle")
      BY <2>1, <3>3 DEF NamesInv, EntriesOwned, Entered
    <3>4. QED
      BY <3>2, <3>3
  <2>2. \A e \in entries : text[e.key] # None /\ e.id \in registered
    <3>1. ASSUME NEW e \in entries
          PROVE  Owns(e.id) /\ e.id \in registered /\ e.id \in Module /\ e.key = name[e.id]
      BY DEF NamesInv, TypeOK, EntriesOwned, Entered, ManagersKnow, Owns
    <3>2. QED
      BY <3>1, NamesAssumption DEF NamesInv, CopiesOwned
  <2>3. \A e, g \in entries : text[e.key] = text[g.key] => e = g
    BY DEF NamesInv, EntriesOwned
  <2>4. \A c \in Copy : text[c] # None =>
          \E m \in Module : /\ name[m] = c
                            /\ m \in attached \/ pc[m] \in {"register", "dictAdd", "attached"}
    BY DEF NamesInv, CopiesOwned, Owns
  <2>5. QED
    BY <2>1, <2>2, <2>3, <2>4 DEF NamesAgree
<1>2. QED
  BY <1>1, NamesInvariant, PTL

\* A call by name finds a module that bears the name all the time, and is not
\* refused, if the string that is handed over has a zero byte in front of it.
THEOREM AttachedNamesAreFound == Spec => []NamedAreFound
<1>1. NamesInv => NamedAreFound
  <2> SUFFICES ASSUME NamesInv, NEW c \in Client
               PROVE  /\ pc[c] = "go" =>
                           /\ from[c] # None /\ from[c].text \in stable[c]
                                => from_id[c] \in Bearers(from[c].text)
                           /\ to[c].text \in stable[c] => to_id[c] \in Bearers(to[c].text)
                      /\ pc[c] = "refused" =>
                           \E s \in {from[c], to[c]} \ {None} :
                             s.text \notin stable[c] \/ s.byte # 0
    BY DEF NamedAreFound
  <2>1. ClientKnows(c)
    BY DEF NamesInv, ClientsKnow
  <2>2. QED
    BY <2>1 DEF ClientKnows, Bears
<1>2. QED
  BY <1>1, NamesInvariant, PTL
=============================================================================
