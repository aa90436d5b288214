------------------------------ MODULE ZoneLoader ------------------------------
(***************************************************************************)
(* repos/zone/zone.go, with the part of common/rrdata it calls: how the    *)
(* files of the zone directory become the records the server starts with.  *)
(*                                                                         *)
(* A file has an extension that is supported or not, a zone_root as it is  *)
(* written ("" if it is missing), and entries: a label, a type and a list  *)
(* of values.  Syntax is abstracted: a file that a parser refuses has      *)
(* wellFormed = FALSE.  The entries of a file are a map to the code, which *)
(* reads them in any order.  Names are those of RecordData, so a name with *)
(* a dot at its end has <<>> as its last label.                            *)
(***************************************************************************)
EXTENDS ZoneCache, RecordData

CONSTANT DefaultTtl  \* in seconds

AtRoot == <<<<64>>>>  \* "@"

\* What a parser makes of a file.
IsEntry(entry) ==
  /\ entry.label \in AnyName /\ entry.type \in Nat
  /\ entry.values \in Seq(Range(entry.values))
  /\ \A value \in Range(entry.values) : IsText(entry.type, value)

IsFile(file) ==
  /\ file.root \in AnyName
  /\ file.entries \in Seq(Range(file.entries))
  /\ \A entry \in Range(file.entries) : IsEntry(entry)

\* expandName; CanonicalDNSName comes later.
ExpandName(label, root) ==
  IF label = AtRoot THEN root
  ELSE IF Last(label) = <<>> THEN label
  ELSE label \o root

\* buildResourceRecord: the records of one entry.
EntryRecords(entry, root) ==
  [i \in DOMAIN entry.values |->
     [name |-> Canonical(ExpandName(entry.label, root)), type |-> entry.type,
      class |-> ClassIN, ttl |-> DefaultTtl,
      data |-> EncodeData(entry.type, entry.values[i])]]

\* loadZoneFileWithRoot.
FileRecords(file) ==
  LET root == Canonical(file.root)
  IN FlattenSeq([i \in DOMAIN file.entries |-> EntryRecords(file.entries[i], root)])

\* Every value must have an encoding, and every record be valid.
IsLoadable(file) ==
  ~ file.supported \/
    /\ file.wellFormed
    /\ file.root # <<>>
    /\ \A i \in DOMAIN FileRecords(file) : IsValidRecord(FileRecords(file)[i])

\* The walk over the directory stops at the first file that cannot be loaded.
DirectoryLoads(files) == \A i \in DOMAIN files : IsLoadable(files[i])

\* The zones of a directory that can be loaded. A file of another kind adds nothing,
\* nor does one whose root is "." alone.
ZonesOf(files) ==
  LoadZoneDirectory(
    [i \in DOMAIN files |->
       IF files[i].supported /\ Canonical(files[i].root) # <<>>
       THEN [root |-> Canonical(files[i].root), records |-> FileRecords(files[i])]
       ELSE [root |-> <<>>, records |-> <<>>]])
=============================================================================
