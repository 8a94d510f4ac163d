----------------------------- MODULE FastQNames -----------------------------
(***************************************************************************)
(* The names of modules: FastQAttachName enters one into the dictionary    *)
(* dictModuleNameID, FastQDeleteModule takes it out again, and the         *)
(* ...ByName calls look two names up, or one, and go on with what they     *)
(* found.  dict_spinlock makes each access to the dictionary exclusive;    *)
(* between two accesses of one call anything may happen.                   *)
(*                                                                         *)
(* Each module has a manager, the thread that creates it, names it and     *)
(* deletes it, one call after the other: FastQAttachName tests             *)
(* name_attached long before it sets it, and nothing else orders these     *)
(* calls.  Managers of different modules and the clients, which send and   *)
(* receive by name, run freely.  Dict models the dictionary itself, here   *)
(* it is its set of entries.                                               *)
(***************************************************************************)
EXTENDS Naturals, FiniteSets

CONSTANTS
  Module,  \* the module IDs, 1 .. FASTQ_ID_MAX
  Name,    \* names, up to strcasecmp
  Client,  \* threads that call FastQSendByName, FastQTrySendByName and
           \* FastQRecvByName
  Copy,    \* addresses that strdup returns
  None     \* no copy, no name, no thread

Thread == Module \cup Client

\* What clients hand over: sdslen in the hash (159) takes the byte in front of
\* a string for an sds header; the comparison is strcasecmp.  That byte is
\* zero in front of what strdup returns (the top byte of the size of a small
\* chunk) but anything in front of other strings.
String == [text : Name, byte : {0, 1}]

ASSUME NamesAssumption ==
  /\ 0 \notin Module /\ Module \cap Client = {}
  /\ None \notin Thread \cup Copy \cup Name \cup String

VARIABLES
  registered, attached,  \* the modules with already_register, name_attached
  name,                  \* name[m]: the copy that m's name points to
  text,                  \* text[c]: what copy c holds, None if it is free
  entries,               \* dictModuleNameID
  lock,                  \* the owner of dict_spinlock
  aborted,               \* an assertion has failed: the process is gone
  pc,                    \* where each thread is
  from, to,              \* the names in the call of a client
  from_id, to_id,        \* what it has found
  stable                 \* history: the names that have been attached since
                         \* the client's call began

lifecycle == <<registered, attached, name, text, entries>>
locals    == <<from, to, from_id, to_id>>
vars == <<lifecycle, lock, aborted, pc, locals, stable>>

Goto(t, at) == ~aborted /\ pc' = [pc EXCEPT ![t] = at]

\* The modules whose attached name is n.
Bearers(n) == {m \in attached : text[name[m]] = n}

\* The module memory comes from malloc: the name pointers have no value yet.
Init ==
  /\ registered = {} /\ attached = {} /\ entries = {}
  /\ name = [m \in Module |-> None]
  /\ text = [c \in Copy |-> None]
  /\ lock = None /\ aborted = FALSE
  /\ pc = [t \in Thread |-> "idle"]
  /\ from = [c \in Client |-> None] /\ to = from
  /\ from_id = [c \in Client |-> 0] /\ to_id = from_id
  /\ stable = [c \in Client |-> {}]

-----------------------------------------------------------------------------
(* dict_spinlock.                                                          *)

Acquire(t, at, inside) ==
  /\ pc[t] = at /\ lock = None
  /\ lock' = t
  /\ Goto(t, inside)
  /\ UNCHANGED <<lifecycle, aborted, locals, stable>>

-----------------------------------------------------------------------------
(* The manager of module m.                                                *)

\* FastQCreateModule leaves the name fields as they are.
Create(m) ==
  /\ pc[m] = "idle" /\ m \notin registered
  /\ registered' = registered \cup {m}
  /\ Goto(m, "idle")
  /\ UNCHANGED <<attached, name, text, entries, lock, aborted, locals, stable>>

\* FastQAttachName, up to the call of dict_register_module.
AttachName(m, n) ==
  /\ pc[m] = "idle" /\ m \in registered \ attached
  /\ \E c \in Copy :
       /\ text[c] = None
       /\ text' = [text EXCEPT ![c] = n]
       /\ name' = [name EXCEPT ![m] = c]
  /\ Goto(m, "register")
  /\ UNCHANGED <<registered, attached, entries, lock, aborted, locals, stable>>

RegisterLock(m) == Acquire(m, "register", "dictAdd")

\* dictAdd refuses a name that is there, and the assertion ends the process
\* with the lock held.
DictAdd(m) ==
  LET taken == \E e \in entries : text[e.key] = text[name[m]] IN
  /\ pc[m] = "dictAdd"
  /\ entries' = IF taken THEN entries
                ELSE entries \cup {[key |-> name[m], id |-> m]}
  /\ aborted' = taken
  /\ lock' = IF taken THEN lock ELSE None
  /\ Goto(m, "attached")
  /\ UNCHANGED <<registered, attached, name, text, locals, stable>>

SetAttached(m) ==
  /\ pc[m] = "attached"
  /\ attached' = attached \cup {m}
  /\ Goto(m, "idle")
  /\ UNCHANGED <<registered, name, text, entries, lock, aborted, locals, stable>>

\* FastQDeleteModule, under _AllModulesRingsLock: one at a time.
DeleteModule(m) ==
  /\ pc[m] = "idle" /\ m \in registered
  /\ \A o \in Module : pc[o] \notin {"unregister", "dictDelete", "free", "unpublish"}
  /\ stable' = [c \in Client |-> IF m \in attached
                                 THEN stable[c] \ {text[name[m]]} ELSE stable[c]]
  /\ Goto(m, IF m \in attached THEN "unregister" ELSE "unpublish")
  /\ UNCHANGED <<lifecycle, lock, aborted, locals>>

UnregisterLock(m) == Acquire(m, "unregister", "dictDelete")

\* dictDelete compares the strings.
DictDelete(m) ==
  LET mine == {e \in entries : text[e.key] = text[name[m]]} IN
  /\ pc[m] = "dictDelete"
  /\ entries' = entries \ mine
  /\ aborted' = (mine = {})
  /\ lock' = IF mine = {} THEN lock ELSE None
  /\ Goto(m, "free")
  /\ UNCHANGED <<registered, attached, name, text, locals, stable>>

\* Variant: name_attached is not cleared.
FreeNameOnly(m) ==
  /\ pc[m] = "free"
  /\ text' = [text EXCEPT ![name[m]] = None]
  /\ Goto(m, "unpublish")
  /\ UNCHANGED <<registered, attached, name, entries, lock, aborted, locals, stable>>

\* The copy is freed, the pointer to it stays.
FreeName(m) ==
  /\ pc[m] = "free"
  /\ text' = [text EXCEPT ![name[m]] = None]
  /\ attached' = attached \ {m}
  /\ Goto(m, "unpublish")
  /\ UNCHANGED <<registered, name, entries, lock, aborted, locals, stable>>

Unpublish(m) ==
  /\ pc[m] = "unpublish"
  /\ registered' = registered \ {m}
  /\ Goto(m, "idle")
  /\ UNCHANGED <<attached, name, text, entries, lock, aborted, locals, stable>>

-----------------------------------------------------------------------------
(* The calls of client c.                                                  *)

\* FastQSendByName, FastQTrySendByName, and FastQRecvByName, which has one
\* name only (it is looked up second here).
Call(c, f, t, at) ==
  /\ pc[c] = "idle"
  /\ from' = [from EXCEPT ![c] = f] /\ to' = [to EXCEPT ![c] = t]
  /\ stable' = [stable EXCEPT ![c] =
       {n \in Name : \E m \in Bearers(n) : pc[m] = "idle"}]
  /\ Goto(c, at)
  /\ UNCHANGED <<lifecycle, lock, aborted, from_id, to_id>>

SendByName(c) == \E f, t \in String : Call(c, f, t, "find from")
RecvByName(c) == \E t \in String : Call(c, None, t, "find to")

\* Variant: the dictionary is searched without the lock.
FindLockNone(c) ==
  \/ /\ pc[c] = "find from"
     /\ Goto(c, "dictFind from")
     /\ UNCHANGED <<lifecycle, lock, aborted, locals, stable>>
  \/ Acquire(c, "find to", "dictFind to")

FindLock(c) == \/ Acquire(c, "find from", "dictFind from")
               \/ Acquire(c, "find to", "dictFind to")

\* Variant: the value of a NULL entry is read.
FoundNull(s) == {e.id : e \in {x \in entries : text[x.key] = s.text}} \cup {None}

\* What dict_find_module_id_byname(s) may return: 0 for a name that is not
\* there, and whatever the hash of another length leads to.
Found(s) ==
  LET ids == {e.id : e \in {x \in entries : text[x.key] = s.text}}
  IN  IF ids = {} THEN {0} ELSE ids \cup (IF s.byte = 0 THEN {} ELSE {0})

FindFrom(c) ==
  /\ pc[c] = "dictFind from"
  /\ \E id \in Found(from[c]) : from_id' = [from_id EXCEPT ![c] = id]
  /\ lock' = None
  /\ Goto(c, "find to")
  /\ UNCHANGED <<lifecycle, aborted, from, to, to_id, stable>>

\* Variant: the second lookup searches the first name again.
FindToAgain(c) ==
  /\ pc[c] = "dictFind to"
  /\ \E id \in Found(IF from[c] = None THEN to[c] ELSE from[c]) :
       to_id' = [to_id EXCEPT ![c] = id]
  /\ lock' = None
  /\ Goto(c, IF from[c] = None THEN "check to" ELSE "check from")
  /\ UNCHANGED <<lifecycle, aborted, from, to, from_id, stable>>

FindTo(c) ==
  /\ pc[c] = "dictFind to"
  /\ \E id \in Found(to[c]) : to_id' = [to_id EXCEPT ![c] = id]
  /\ lock' = None
  /\ Goto(c, IF from[c] = None THEN "check to" ELSE "check from")
  /\ UNCHANGED <<lifecycle, aborted, from, to, from_id, stable>>

\* Slot 0 is never registered.
CheckFrom(c) ==
  /\ pc[c] = "check from"
  /\ Goto(c, IF from_id[c] \in registered THEN "check to" ELSE "refused")
  /\ UNCHANGED <<lifecycle, lock, aborted, locals, stable>>

CheckTo(c) ==
  /\ pc[c] = "check to"
  /\ Goto(c, IF to_id[c] \in registered THEN "go" ELSE "refused")
  /\ UNCHANGED <<lifecycle, lock, aborted, locals, stable>>

\* FastQSend, FastQTrySend or FastQRecv on the IDs, or `return false`.
Return(c) ==
  /\ pc[c] \in {"go", "refused"}
  /\ from' = [from EXCEPT ![c] = None] /\ to' = [to EXCEPT ![c] = None]
  /\ from_id' = [from_id EXCEPT ![c] = 0] /\ to_id' = [to_id EXCEPT ![c] = 0]
  /\ stable' = [stable EXCEPT ![c] = {}]
  /\ Goto(c, "idle")
  /\ UNCHANGED <<lifecycle, lock, aborted>>

Next ==
  \/ \E m \in Module :
       \/ Create(m) \/ DeleteModule(m)
       \/ \E n \in Name : AttachName(m, n)
       \/ RegisterLock(m) \/ DictAdd(m) \/ SetAttached(m)
       \/ UnregisterLock(m) \/ DictDelete(m) \/ FreeName(m) \/ Unpublish(m)
  \/ \E c \in Client :
       \/ SendByName(c) \/ RecvByName(c) \/ FindLock(c)
       \/ FindFrom(c) \/ FindTo(c) \/ CheckFrom(c) \/ CheckTo(c) \/ Return(c)

Spec == Init /\ [][Next]_vars

-----------------------------------------------------------------------------
(* Properties.                                                             *)

ManagerAt == {"idle", "register", "dictAdd", "attached", "unregister",
              "dictDelete", "free", "unpublish"}
ClientAt == {"idle", "find from", "dictFind from", "find to", "dictFind to",
             "check from", "check to", "go", "refused"}

TypeOK ==
  /\ registered \subseteq Module /\ attached \subseteq registered
  /\ name \in [Module -> Copy \cup {None}]
  /\ text \in [Copy -> Name \cup {None}]
  /\ entries \subseteq [key : Copy, id : Module]
  /\ lock \in Thread \cup {None} /\ aborted \in BOOLEAN
  /\ pc \in [Thread -> ManagerAt \cup ClientAt]
  /\ \A m \in Module : pc[m] \in ManagerAt
  /\ \A c \in Client : pc[c] \in ClientAt
  /\ from \in [Client -> String \cup {None}]
  /\ to \in [Client -> String \cup {None}]
  /\ from_id \in [Client -> Module \cup {0}]
  /\ to_id \in [Client -> Module \cup {0}]
  /\ stable \in [Client -> SUBSET Name]

Section == {"dictAdd", "dictDelete", "dictFind from", "dictFind to"}

\* Every access to the dictionary is exclusive: a lookup at the same time
\* would follow a chain that dictAdd or dictDelete is changing.
DictionaryExclusive ==
  \A t, u \in Thread : {pc[t], pc[u]} \subseteq Section => t = u

\* The dictionary, the flags and the copies of the names agree whenever the
\* manager of a module is between its calls, and at each of its steps as far
\* as it has come: an entry for each attached name and no other, no two
\* entries with the same name, no entry whose key has been freed, and no copy
\* that is left over.
NamesAgree ==
  /\ \A m \in Module : pc[m] \in {"idle", "free", "unpublish"} /\ ~aborted =>
       {e \in entries : e.id = m}
         = IF m \in attached /\ pc[m] = "idle"
           THEN {[key |-> name[m], id |-> m]} ELSE {}
  /\ \A e \in entries : text[e.key] # None /\ e.id \in registered
  /\ \A e, g \in entries : text[e.key] = text[g.key] => e = g
  /\ \A c \in Copy : text[c] # None =>
       \E m \in Module : /\ name[m] = c
                         /\ m \in attached \/ pc[m] \in {"register", "dictAdd", "attached"}

\* A name that is attached during the whole of a call is found: the call goes
\* on with the module that bears it, and it is refused only if one of its
\* names was not there all the time, or if the string was handed over with
\* another byte than zero in front of it.
NamedAreFound ==
  \A c \in Client :
    /\ pc[c] = "go" =>
         /\ from[c] # None /\ from[c].text \in stable[c]
              => from_id[c] \in Bearers(from[c].text)
         /\ to[c].text \in stable[c] => to_id[c] \in Bearers(to[c].text)
    /\ pc[c] = "refused" =>
         \E s \in {from[c], to[c]} \ {None} : s.text \notin stable[c] \/ s.byte # 0

\* The thread in a section is the owner of the lock.
LockHeld == \A t \in Thread : pc[t] \in Section => lock = t

\* Module m has a copy of its name; its name has been entered.
Owns(m) == m \in attached \/ pc[m] \in {"register", "dictAdd", "attached"}
Entered(m) == \/ pc[m] \in {"attached", "unregister", "dictDelete"}
              \/ (pc[m] = "idle" /\ m \in attached)

\* What the managers know at each of their steps.
ManagersKnow ==
  \A m \in Module :
    /\ pc[m] \in {"register", "dictAdd", "attached", "unpublish"} =>
         m \in registered \ attached
    /\ pc[m] \in {"unregister", "dictDelete", "free"} => m \in attached

\* Each copy of a name has one owner.
CopiesOwned ==
  /\ \A m \in Module : Owns(m) => name[m] \in Copy /\ text[name[m]] \in Name
  /\ \A m, o \in Module :
       Owns(m) /\ Owns(o) /\ name[m] = name[o] => m = o
  /\ \A c \in Copy : text[c] # None => \E m \in Module : Owns(m) /\ name[m] = c

\* The entries are those of the modules that have entered their names.
EntriesOwned ==
  /\ \A e \in entries : Entered(e.id) /\ e.key = name[e.id]
  /\ \A m \in Module :
       Entered(m) /\ ~aborted => [key |-> name[m], id |-> m] \in entries
  /\ \A e, g \in entries : text[e.key] = text[g.key] => e = g

\* id is the module with a name that has been attached all the time.
Bears(c, s, id) ==
  s.text \in stable[c] => id \in Bearers(s.text) /\ pc[id] = "idle"

\* What client c knows at each of its steps.
ClientKnows(c) ==
  /\ \A n \in stable[c] : \E m \in Bearers(n) : pc[m] = "idle"
  /\ pc[c] # "idle" => to[c] \in String
  /\ pc[c] \in {"find from", "dictFind from", "check from"} => from[c] \in String
  /\ pc[c] \in {"find to", "dictFind to", "check from"} /\ from[c] # None =>
       Bears(c, from[c], from_id[c]) \/ (from_id[c] = 0 /\ from[c].byte # 0)
  /\ pc[c] \in {"check from", "check to"} =>
       Bears(c, to[c], to_id[c]) \/ (to_id[c] = 0 /\ to[c].byte # 0)
  /\ pc[c] \in {"check to", "go"} /\ from[c] # None =>
       Bears(c, from[c], from_id[c])
  /\ pc[c] = "go" => Bears(c, to[c], to_id[c])
  /\ pc[c] = "refused" =>
       \E s \in {from[c], to[c]} \ {None} : s.text \notin stable[c] \/ s.byte # 0

ClientsKnow == \A c \in Client : ClientKnows(c)

\* The inductive invariant: the lock, the copies, the entries and the clients
\* at every step, which the properties above describe between the steps.
NamesInv ==
  /\ TypeOK /\ LockHeld
  /\ ManagersKnow /\ CopiesOwned /\ EntriesOwned
  /\ ClientsKnow
=============================================================================
