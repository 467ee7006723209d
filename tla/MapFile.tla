------------------------------- MODULE MapFile -------------------------------
(***************************************************************************)
(* map_loader: the map file that site engineers edit by hand, read into    *)
(* MapData and a Map, and written back by tools.                           *)
(*                                                                         *)
(* A file is JSON with lists of elements, and an element has fields; each  *)
(* may be left out or hold something of the wrong type.  An element that   *)
(* is no object reads as one without fields; a word or a number in the     *)
(* place of a list reads as a list of one such element, and null or {} as  *)
(* the empty list.  Geometry, travel times, map id and version are left    *)
(* out; a node's type and a corridor's direction are words the loader      *)
(* knows or does not.                                                      *)
(***************************************************************************)
EXTENDS MapValidation

CONSTANTS
  NoFile, Torn, NotAnObject,  \* files without elements
  Absent, Mistyped,           \* what a field may hold instead of a value
  FirstText,                  \* the file as it was first written
  Entries,                    \* the elements an engineer may add, by list
  Speeds,                     \* what may be stated as the default speed
  CapacityBits                \* width of a capacity, 32 in the code

(* What may be written for a value, each word known to the loader or not.  *)
Said(values) == {Absent, Mistyped} \cup values

Word == {"known", "unknown"}

NodeEntry == [id : Said(Name), type : Said(Word), capacity : Said(Int)]

EdgeEntry ==
  [id : Said(Name), from : Said(Name), to : Said(Name),
   direction : Said(Directions \cup {"unknown"}), enabled : Said(BOOLEAN),
   length : Said(Int), speed_limit : Said(Int), capacity : Said(Int),
   resource : Said(Name)]

CorridorEntry ==
  [id : Said(Name), entry : Said(Name), exit : Said(Name), edges : Said(Seq(Name)),
   direction : Said(Word), capacity : Said(Int)]

IntersectionEntry ==
  [id : Said(Name), nodes : Said(SUBSET Name), movements : Said(SUBSET Name),
   groups : Said(SUBSET SUBSET Name), capacity : Said(Int)]

BayEntry == [id : Said(Name), node : Said(Name), capacity : Said(Int)]

Text ==
  [speed : Said(Int), nodes : Said(Seq(NodeEntry)), edges : Said(Seq(EdgeEntry)),
   corridors : Said(Seq(CorridorEntry)), intersections : Said(Seq(IntersectionEntry)),
   bays : Said(Seq(BayEntry))]

(* Nothing, and what is of another type, is no value of the right one.     *)
ASSUME FileAssumption ==
  /\ FirstText \in Text /\ Speeds \subseteq Said(Int)
  /\ Entries \in [nodes : SUBSET NodeEntry, edges : SUBSET EdgeEntry,
                 corridors : SUBSET CorridorEntry,
                 intersections : SUBSET IntersectionEntry, bays : SUBSET BayEntry]
  /\ Absent # Mistyped
  /\ \A missing \in {Absent, Mistyped} :
       /\ missing \notin Name /\ missing \notin Int /\ missing \notin BOOLEAN
       /\ missing \notin Directions \cup Word /\ missing # {}
       /\ missing \notin Seq(NodeEntry) /\ missing \notin Seq(EdgeEntry)
       /\ missing \notin Seq(CorridorEntry) /\ missing \notin Seq(IntersectionEntry)
       /\ missing \notin Seq(BayEntry)
  /\ \A text \in {NoFile, Torn, NotAnObject} : text \notin Text
  /\ CapacityBits \in Nat \ {0} /\ 2^CapacityBits \in Nat \ {0, 1}

VARIABLES
  file,      \* what the file holds
  outcome    \* what came of the last call of the loader

fileVars == <<vars, file, outcome>>

-----------------------------------------------------------------------------
(* Reading an element.                                                     *)

IsGiven(value) == value \notin {Absent, Mistyped}

(* require                                                                 *)
Has(entry, fields) == \A field \in fields : IsGiven(entry[field])

(* optional_field: a value of the wrong type is as good as none.           *)
Optional(value, fallback) == IF IsGiven(value) THEN value ELSE fallback

(* A number of any sign is taken for an unsigned one.                      *)
Capacity(entry) == Optional(entry.capacity, 1) % 2^CapacityBits

SpeedOf(entry, default) ==
  LET stated == Optional(entry.speed_limit, 0)
  IN  IF stated <= 0 THEN Optional(default, 1) ELSE stated

NodeOf(entry) == [id |-> entry.id, capacity |-> Capacity(entry)]

EdgeOf(entry, default) ==
  LET name == Optional(entry.resource, Blank)
  IN  [id          |-> entry.id,
       from        |-> entry.from,
       to          |-> entry.to,
       direction   |-> Optional(entry.direction, "bidirectional"),
       enabled     |-> Optional(entry.enabled, TRUE),
       length      |-> entry.length,
       speed_limit |-> SpeedOf(entry, default),
       capacity    |-> Capacity(entry),
       resource    |-> IF name = Blank THEN None ELSE name]

CorridorOf(entry) ==
  [id |-> entry.id, entry |-> entry.entry, exit |-> entry.exit,
   edges |-> entry.edges, capacity |-> Capacity(entry)]

IntersectionOf(entry) ==
  [id |-> entry.id, nodes |-> entry.nodes,
   movements |-> Optional(entry.movements, {}), groups |-> Optional(entry.groups, {}),
   capacity |-> Capacity(entry)]

BayOf(entry) == [id |-> entry.id, node |-> entry.node, capacity |-> Capacity(entry)]

(* make_corridor, make_intersection and make_waiting_bay.                  *)
IsCorridor(corridor) ==
  /\ Blank \notin {corridor.id, corridor.entry, corridor.exit} \cup Seqs!ToSet(corridor.edges)
  /\ corridor.entry # corridor.exit
  /\ corridor.edges # << >>
  /\ IsPositive(corridor.capacity)

IsIntersection(crossing) ==
  /\ Blank \notin {crossing.id} \cup crossing.nodes
  /\ crossing.nodes # {}
  /\ IsPositive(crossing.capacity)

IsBay(bay) == Blank \notin {bay.id, bay.node} /\ IsPositive(bay.capacity)

(* What is wrong with an element, looked at in this order.                 *)
Fault(complete, valid) ==
  IF ~complete THEN "schema_violation" ELSE IF ~valid THEN "invalid_value" ELSE "none"

NodeFault(entry) ==
  Fault(Has(entry, {"id"}), Optional(entry.type, "known") = "known")

EdgeFault(entry) ==
  Fault(Has(entry, {"id", "from", "to", "length"}),
        Optional(entry.direction, "bidirectional") \in Directions)

CorridorFault(entry) ==
  Fault(Has(entry, {"id", "entry", "exit", "edges"}),
        Optional(entry.direction, "known") = "known" /\ IsCorridor(CorridorOf(entry)))

(* Movements and groups are read after the rest, each a complete one.      *)
IntersectionFault(entry) ==
  LET first == Fault(Has(entry, {"id", "nodes"}), IsIntersection(IntersectionOf(entry)))
  IN  IF first = "none" THEN Fault(Mistyped \notin {entry.movements, entry.groups}, TRUE)
      ELSE first

BayFault(entry) == Fault(Has(entry, {"id", "node"}), IsBay(BayOf(entry)))
-----------------------------------------------------------------------------
(* Reading a file.                                                         *)

(* A list that may be left out is then an empty one.                       *)
Listed(list) == Optional(list, << >>)

Each(list, Of(_)) == [i \in DOMAIN list |-> Of(list[i])]

(* The list itself comes before its elements: one that has to be there, or *)
(* one that may be left out, but is not something else.                    *)
FaultsIn(text) ==
  <<Fault(Has(text, {"nodes"}), TRUE)>>
    \o Each(Listed(text.nodes), NodeFault)
    \o <<Fault(Has(text, {"edges"}), TRUE)>>
    \o Each(Listed(text.edges), EdgeFault)
    \o <<Fault(text.corridors # Mistyped, TRUE)>>
    \o Each(Listed(text.corridors), CorridorFault)
    \o <<Fault(text.intersections # Mistyped, TRUE)>>
    \o Each(Listed(text.intersections), IntersectionFault)
    \o <<Fault(text.bays # Mistyped, TRUE)>>
    \o Each(Listed(text.bays), BayFault)

Parsed(text) ==
  [nodes         |-> Each(text.nodes, NodeOf),
   edges         |-> Each(text.edges, LAMBDA entry : EdgeOf(entry, text.speed)),
   corridors     |-> Each(Listed(text.corridors), CorridorOf),
   intersections |-> Each(Listed(text.intersections), IntersectionOf),
   bays          |-> Each(Listed(text.bays), BayOf)]

(* load_map_from_file: the first thing wrong ends it.                      *)
Outcome(text) ==
  CASE text = NoFile      -> "file_not_readable"
    [] text = Torn        -> "malformed_json"
    [] text = NotAnObject -> "schema_violation"
    [] OTHER ->
         LET faults == FaultsIn(text)
             first  == Seqs!SelectInSeq(faults, LAMBDA fault : fault # "none")
         IN  IF first # 0 THEN faults[first]
             ELSE IF IsValid(Validate(Parsed(text))) THEN "loaded"
             ELSE "validation_failed"
-----------------------------------------------------------------------------
(* Writing a map.                                                          *)

NodeText(node) == [id |-> node.id, type |-> "known", capacity |-> node.capacity]

(* Slip: only what is out of order is said to be.                          *)
EdgeTextWhereEnabled(edge) ==
  [edge EXCEPT !.enabled = Absent, !.resource = IF @ = None THEN Absent ELSE @]

EdgeText(edge) == [edge EXCEPT !.resource = IF @ = None THEN Absent ELSE @]

CorridorText(corridor) ==
  [id |-> corridor.id, entry |-> corridor.entry, exit |-> corridor.exit,
   edges |-> corridor.edges, direction |-> "known", capacity |-> corridor.capacity]

(* save_map_to_json: lists with nothing in them are left out.              *)
TextOf(map) ==
  LET Unless(list) == IF list = << >> THEN Absent ELSE list
  IN  [speed         |-> Absent,
       nodes         |-> Each(map.nodes, NodeText),
       edges         |-> Each(map.edges, EdgeText),
       corridors     |-> Unless(Each(map.corridors, CorridorText)),
       intersections |-> Unless(map.intersections),
       bays          |-> Unless(map.bays)]
-----------------------------------------------------------------------------
(* The engineer's editor.                                                  *)
IsText == file \notin {NoFile, Torn, NotAnObject}

Retype(list, elements) ==
  /\ edits < MaxEdits
  /\ edits' = edits + 1
  /\ file' = [file EXCEPT ![list] = elements]
  /\ outcome' = "none"
  /\ UNCHANGED <<draft, built, report>>

Write(list, entry) == Retype(list, Append(Listed(file[list]), entry))

Strike(list, i) == Retype(list, Seqs!RemoveAt(file[list], i))

(* A list goes, or something else comes in its place.                      *)
LeaveOut(list) == \E what \in {Absent, Mistyped} : Retype(list, what)

SetDefault(speed) == Retype("speed", speed)

(* load_map_from_file: a map whose data may be worked on, or none.         *)
Load ==
  /\ outcome' = Outcome(file)
  /\ IF outcome' \in {"loaded", "validation_failed"}
     THEN report' = Validate(Parsed(file))
     ELSE report' = {}
  /\ IF outcome' = "loaded"
     THEN draft' = Parsed(file) /\ built' = draft'
     ELSE built' = None /\ UNCHANGED draft
  /\ UNCHANGED <<edits, file>>

(* save_map_to_file: what was there is gone when the file is opened, and   *)
(* whether the writing came to its end is not looked at.                   *)
Save ==
  /\ HasMap
  /\ \/ file' \in {TextOf(built), Torn} /\ outcome' = "saved"
     \/ outcome' = "file_not_readable" /\ UNCHANGED file
  /\ UNCHANGED vars

(* MapData are worked on in the program, as before.                        *)
Work ==
  /\ Next
  /\ outcome' = "none"
  /\ UNCHANGED file

FileInit ==
  /\ Init
  /\ file \in {FirstText, NoFile, Torn, NotAnObject}
  /\ outcome = "none"

FileNext ==
  \/ /\ IsText
     /\ \/ \E list \in Lists : \E entry \in Entries[list] : Write(list, entry)
        \/ \E list \in Lists : \E i \in DOMAIN Listed(file[list]) : Strike(list, i)
        \/ \E list \in Lists : LeaveOut(list)
        \/ \E speed \in Speeds : SetDefault(speed)
  \/ Load
  \/ Save
  \/ Work

FileSpec == FileInit /\ [][FileNext]_fileVars
-----------------------------------------------------------------------------
(* Correctness.                                                            *)

(* "Round-trips: loading the output produces an equivalent map"            *)
(* (save_map_to_json): a map that was loaded, whatever its file left to    *)
(* the defaults, is the same map after it was saved and loaded again.      *)
RoundTrips ==
  outcome = "loaded" =>
    /\ Outcome(TextOf(built)) = "loaded"
    /\ Parsed(TextOf(built)) = built
=============================================================================
