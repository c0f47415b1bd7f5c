---------------------------- MODULE ResourceStore ---------------------------
(***************************************************************************)
(* The resources of a component in the Berkeley DB store (bdb/write.c,     *)
(* bdb/read.c): a list of names under the name of the component, and up to *)
(* five items for each resource under a key of symbol, component and name. *)
(* The database is new each time it is written, so there is nothing of an  *)
(* earlier one to meet.  A database is a function from keys to texts.      *)
(***************************************************************************)
EXTENDS ResourceText

(* Symbols of the items in the order they are read; NULL is the value.     *)
MetaSymbols == <<"#", "=", "^">>

ItemSymbols == ToSet(MetaSymbols) \cup {"%", NULL}

(* Priorities have one digit here.                                         *)
PriorityAsString(priority) == <<CHOOSE p \in Digits : NumberOf(<<p>>) = priority>>

(* lcfgcomponent_to_bdb: an item the resource does not have, and a         *)
(* priority that is not above the default, is not stored.  The value is,   *)
(* as it is, also when there is none.                                      *)
StoredItem(res, symbol) ==
  CASE symbol = "#" -> IF res.derivation = {} THEN NULL ELSE DerivationText(res.derivation)
    [] symbol = "%" -> IF HasMeta(res) THEN TypeAsString(res) ELSE NULL
    [] symbol = "=" -> IF HasContext(res) THEN res.context ELSE NULL
    [] symbol = "^" -> IF res.priority > 0 THEN PriorityAsString(res.priority) ELSE NULL
    [] OTHER -> OrEmpty(res.value)

StoredKeys(res, compname) ==
  { Key(symbol, compname, res.name) : symbol \in { s \in ItemSymbols : StoredItem(res, s) # NULL } }

ToBdb(resources, compname) ==
  LET stored == { res \in resources : res # NULL }
      item(key) == CHOOSE text \in { StoredItem(res, s) : res \in stored, s \in ItemSymbols } :
                     \E res \in stored, s \in ItemSymbols :
                       key = Key(s, compname, res.name) /\ text = StoredItem(res, s)
  IN  (compname :> { res.name : res \in stored })
        @@ [ key \in UNION { StoredKeys(res, compname) : res \in stored } |-> item(key) ]

(* lcfgbdb_get_resource_item.                                              *)
GetResourceItem(db, res, compname, symbol) ==
  IF Key(symbol, compname, res.name) \in DOMAIN db
  THEN SetAttribute(res, symbol, db[Key(symbol, compname, res.name)])
  ELSE Granted(res)

(* Variant: the type is taken for meta data.                               *)
ReadOrderTypeAsMeta(meta) == (IF meta THEN Append(MetaSymbols, "%") ELSE << >>) \o <<NULL>>

ReadOrder(meta) == (IF meta THEN MetaSymbols ELSE << >>) \o <<"%", NULL>>

(* One resource of lcfgbdb_process_component: the first bad item fails the *)
(* whole load.                                                             *)
FromBdb(db, name, compname, meta) ==
  FoldLeft(LAMBDA outcome, symbol : Then(outcome, LAMBDA res : GetResourceItem(db, res, compname, symbol)),
           SetName(NewResource, name), ReadOrder(meta))
=============================================================================
