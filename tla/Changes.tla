------------------------------ MODULE Changes ------------------------------
(***************************************************************************)
(* The list of changes between two versions of a dataset that an activity  *)
(* shows (ckanext/activity/changes.py).  Versions are what package_show    *)
(* returned; a field is None (NoValue) or a string, and both None and ""   *)
(* are false.                                                              *)
(***************************************************************************)
EXTENDS Naturals, FiniteSets

CONSTANTS
  Pairs,    \* <<old, new>>, versions that are compared
  NoValue,
  Nothing   \* not compared yet

VARIABLES
  pair,     \* the two versions
  told      \* the changes, in whatever order; Error when the page fails

vars == <<pair, told>>

Error == {[type |-> "error"]}

True(v) == v \notin {NoValue, ""}

\* dict.get
Get(d, k) == IF k \in DOMAIN d THEN d[k] ELSE NoValue

Method(a, b) ==
  IF True(a) /\ True(b) THEN "change" ELSE IF ~True(b) THEN "remove" ELSE "add"

(* maintainer, author, their emails and notes; the same with description   *)
(* for organizations.                                                      *)
Described == {"maintainer", "notes"}

FieldChange(f, a, b) ==
  [type |-> f, method |-> Method(a, b), value |-> IF True(b) THEN b ELSE NoValue,
   was |-> IF Method(a, b) = "change" THEN a ELSE NoValue]

\* url and version; the same with image_url for organizations.
Linked == {"url"}

LinkChange(f, a, b) ==
  [type |-> f, method |-> Method(a, b), value |-> IF True(b) THEN b ELSE NoValue,
   was |-> IF Method(a, b) = "add" THEN NoValue ELSE a]

\* title, name, license and private have one form for all changes.
Plain == {"title", "name", "license_title"}

PlainChange(f, a, b) == [type |-> f, method |-> "change", value |-> b, was |-> a]

Privacy(b) == IF b THEN "Private" ELSE "Public"

(* organization is None when the owner is deleted, and the functions below *)
(* then ask None for the title.                                            *)
OrgFails(old, new) ==
  /\ Get(old, "owner_org") # Get(new, "owner_org")
  /\ \/ (True(Get(old, "owner_org")) \/ ~True(Get(new, "owner_org")))
        /\ Get(old, "organization") = NoValue
     \/ True(Get(new, "owner_org")) /\ Get(new, "organization") = NoValue

OrgChange(a, b) == FieldChange("owner_org", a, b)

\* Mutant: several names are not told of.
NamesOne(type, one, many, names) ==
  IF Cardinality(names) = 1
    THEN {[type |-> type, method |-> one, names |-> names]} ELSE {}

\* One name and several are told of in different forms.
Names(type, one, many, names) ==
  IF names = {} THEN {}
  ELSE {[type |-> type, method |-> IF Cardinality(names) = 1 THEN one ELSE many,
         names |-> names]}

TagChange(a, b) ==
  Names("tags", "remove_one", "remove_multiple", a \ b)
    \cup Names("tags", "add_one", "add_multiple", b \ a)

Standard == {"title", "name", "license_title", "private", "owner_org",
             "organization", "maintainer", "notes", "url", "tags", "extras",
             "resources"}

\* Fields of extensions are told of where both versions have them.
ExtensionFields(old, new) ==
  {[type |-> "extension_fields", key |-> f, value |-> new[f]] :
     f \in {g \in (DOMAIN old \cap DOMAIN new) \ Standard : old[g] # new[g]}}

(* Fields added: one with its value if it has one, or several.             *)
AddedFields(type, new, names) ==
  CASE names = {} -> {}
    [] Cardinality(names) = 1 ->
         {[type |-> type,
           method |-> IF True(new[f]) THEN "add_one_value" ELSE "add_one_no_value",
           names |-> names,
           values |-> [g \in names |-> IF True(new[g]) THEN new[g] ELSE NoValue]] :
            f \in names}
    [] OTHER ->
         {[type |-> type, method |-> "add_multiple", names |-> names,
           values |-> [g \in names |-> new[g]]]}

ExtraValue(a, b, f) ==
  [type |-> "extra_fields", key |-> f, value |-> b[f],
   method |-> IF True(a[f]) THEN "change_with_old_value" ELSE "change_no_old_value"]

\* A version may lack the list of extras; no extras is a version without any.
NoExtras == [f \in {} |-> NoValue]

ExtraFields(old, new) ==
  LET a == IF "extras" \in DOMAIN old THEN old["extras"] ELSE NoExtras
      b == IF "extras" \in DOMAIN new THEN new["extras"] ELSE NoExtras
  IN AddedFields("extra_fields", b, DOMAIN b \ DOMAIN a)
       \cup Names("extra_fields", "remove_one", "remove_multiple", DOMAIN a \ DOMAIN b)
       \cup {ExtraValue(a, b, f) :
               f \in {g \in DOMAIN a \cap DOMAIN b : a[g] # b[g]}}

MetadataChanges(old, new) ==
  {PlainChange(f, Get(old, f), Get(new, f)) : f \in {g \in Plain : Get(old, g) # Get(new, g)}}
    \cup {FieldChange(f, Get(old, f), Get(new, f)) :
            f \in {g \in Described : Get(old, g) # Get(new, g)}}
    \cup {LinkChange(f, Get(old, f), Get(new, f)) :
            f \in {g \in Linked : Get(old, g) # Get(new, g)}}
    \cup {OrgChange(Get(old, f), Get(new, f)) :
            f \in {g \in {"owner_org"} : Get(old, g) # Get(new, g)}}
    \cup {PlainChange(f, NoValue, Privacy(new[f])) :
            f \in {g \in {"private"} : old[g] # new[g]}}
    \cup TagChange(old["tags"], new["tags"])
    \cup ExtensionFields(old, new)
    \cup ExtraFields(old, new)

-----------------------------------------------------------------------------
(* Resources: a version has a function from their ids to their fields.     *)

InResource(id, changes) == {[resource |-> id, change |-> c] : c \in changes}

ResourceFormat(a, b) ==
  IF a = b THEN {}
  ELSE {[type |-> "format", value |-> b,
         method |-> IF ~True(a) /\ True(b) THEN "add" ELSE "change"]}

ResourceDescription(a, b) ==
  IF a = b THEN {}
  ELSE {[type |-> "desc", value |-> IF True(b) THEN b ELSE NoValue,
         method |-> IF ~True(a) /\ True(b) THEN "add"
                    ELSE IF True(a) /\ ~True(b) THEN "remove" ELSE "change"]}

DefaultFields == {"name", "format", "description", "url", "position"}

ResourceExtra(a, b, f) ==
  [type |-> "resource_extras", key |-> f,
   method |-> IF True(a[f]) /\ True(b[f]) THEN "change_value_with_old"
              ELSE IF ~True(a[f]) THEN "change_value_no_old"
              ELSE "change_value_no_new",
   value |-> IF True(a[f]) /\ ~True(b[f]) THEN NoValue ELSE b[f]]

ResourceExtras(a, b) ==
  LET was == DOMAIN a \ DefaultFields
      is == DOMAIN b \ DefaultFields
  IN AddedFields("resource_extras", b, is \ was)
       \cup Names("resource_extras", "remove_one", "remove_multiple", was \ is)
       \cup {ResourceExtra(a, b, f) : f \in {g \in was \cap is : a[g] # b[g]}}

ResourceFields(a, b) ==
  {[type |-> "name", method |-> "change", value |-> v] :
     v \in {Get(b, "name")} \ {Get(a, "name")}}
    \cup ResourceFormat(Get(a, "format"), Get(b, "format"))
    \cup ResourceDescription(Get(a, "description"), Get(b, "description"))
    \cup {[type |-> "file", method |-> "change", value |-> NoValue] :
            v \in {Get(b, "url")} \ {Get(a, "url")}}
    \cup ResourceExtras(a, b)

NewResource(id, r) == [resource |-> id, new |-> TRUE, name |-> Get(r, "name")]
DeletedResource(id, r) == [resource |-> id, new |-> FALSE, name |-> Get(r, "name")]

ResourceChanges(a, b) ==
  {NewResource(id, b[id]) : id \in DOMAIN b \ DOMAIN a}
    \cup {DeletedResource(id, a[id]) : id \in DOMAIN a \ DOMAIN b}
    \cup UNION {InResource(id, ResourceFields(a[id], b[id])) :
                  id \in DOMAIN a \cap DOMAIN b}

-----------------------------------------------------------------------------
\* compare_pkg_dicts
Compare ==
  LET old == pair[1]
      new == pair[2]
      changes == MetadataChanges(old, new)
                   \cup ResourceChanges(old["resources"], new["resources"])
  IN /\ told = Nothing
     /\ told' = IF OrgFails(old, new) THEN Error
                ELSE IF changes = {} THEN {[type |-> "no_change"]} ELSE changes
     /\ UNCHANGED pair

Init == pair \in Pairs /\ told = Nothing

Next == Compare

Spec == Init /\ [][Next]_vars

-----------------------------------------------------------------------------
(* Properties *)

TypeOK ==
  /\ DOMAIN pair = {1, 2}
  /\ told = Nothing \/ told # {}

Same(v, w) == v = w \/ (~True(v) /\ ~True(w))

\* What a reader who has the old value makes of the changes.
ReadField(cs, type, a) ==
  LET its == {c \in cs : c.type = type}
  IN IF its = {} THEN a ELSE (CHOOSE c \in its : TRUE).value

ReadNames(cs, type, methods) ==
  UNION {c.names : c \in {d \in cs : d.type = type /\ d.method \in methods}}

ReadExtras(cs, type, a) ==
  LET named == {c \in cs : c.type = type /\ "names" \in DOMAIN c}
      valued == {c \in cs : c.type = type /\ "key" \in DOMAIN c}
      added == {c \in named : "values" \in DOMAIN c}
      removed == UNION {c.names : c \in named \ added}
  IN [f \in (DOMAIN a \ removed) \cup UNION {c.names : c \in added} |->
        IF \E c \in added : f \in c.names
          THEN (CHOOSE c \in added : f \in c.names).values[f]
        ELSE IF \E c \in valued : c.key = f
          THEN (CHOOSE c \in valued : c.key = f).value
        ELSE a[f]]

SameExtras(a, b) == DOMAIN a = DOMAIN b /\ \A f \in DOMAIN a : Same(a[f], b[f])

ToldOfResource(id, a, b) ==
  LET cs == {c.change : c \in {d \in told : "change" \in DOMAIN d /\ d.resource = id}}
      Kept(r) == [f \in DOMAIN r \ DefaultFields |-> r[f]]
  IN /\ Same(ReadField(cs, "name", Get(a, "name")), Get(b, "name"))
     /\ Same(ReadField(cs, "format", Get(a, "format")), Get(b, "format"))
     /\ Same(ReadField(cs, "desc", Get(a, "description")), Get(b, "description"))
     /\ (\E c \in cs : c.type = "file") <=> Get(a, "url") # Get(b, "url")
     /\ SameExtras(ReadExtras(cs, "resource_extras", Kept(a)), Kept(b))

(* The list tells of all that changed: whoever applies it to the old       *)
(* version has the new one, whether one or several names were added,       *)
(* changed or removed at a time, and as far as the list goes: not for the  *)
(* fields that an extension adds or drops, the order and the contents of   *)
(* new resources, or for what None and "" differ in.  The page fails for a *)
(* version whose organization was deleted.                                 *)
ChangesAreTold ==
  told \notin {Nothing, Error} =>
    LET old == pair[1]
        new == pair[2]
        cs == {c \in told : "type" \in DOMAIN c}
        rs == {c \in told : "new" \in DOMAIN c}
        Extras(v) == IF "extras" \in DOMAIN v THEN v["extras"] ELSE NoExtras
    IN /\ \A f \in Plain \cup Described \cup Linked \cup {"owner_org"} :
            Same(ReadField(cs, f, Get(old, f)), Get(new, f))
       /\ ReadField(cs, "private", Privacy(old["private"])) = Privacy(new["private"])
       /\ (old["tags"] \ ReadNames(cs, "tags", {"remove_one", "remove_multiple"}))
            \cup ReadNames(cs, "tags", {"add_one", "add_multiple"}) = new["tags"]
       /\ \A f \in (DOMAIN old \cap DOMAIN new) \ Standard :
            old[f] # new[f] <=> [type |-> "extension_fields", key |-> f, value |-> new[f]] \in cs
       /\ SameExtras(ReadExtras(cs, "extra_fields", Extras(old)), Extras(new))
       /\ (DOMAIN old["resources"] \ {c.resource : c \in {d \in rs : ~d.new}})
            \cup {c.resource : c \in {d \in rs : d.new}} = DOMAIN new["resources"]
       /\ \A id \in DOMAIN old["resources"] \cap DOMAIN new["resources"] :
            ToldOfResource(id, old["resources"][id], new["resources"][id])
       /\ told = {[type |-> "no_change"]}
            => \A f \in (DOMAIN old \cap DOMAIN new) \ {"organization", "extras"} :
                 f # "resources" => old[f] = new[f]
=============================================================================
