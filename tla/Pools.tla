------------------------------- MODULE Pools -------------------------------
(***************************************************************************)
(* GET /api/pools (api/pools.py, get_pools) and GET /api/config            *)
(* (api/config.py, get_config) over the config lookup they share,          *)
(* _load_config: the candidates CHI_SERVER_CONF, WRP_RUNTIME_CONF and      *)
(* ~/.chimaera/chimaera.yaml are tried in order; the first that names an   *)
(* existing file is opened and parsed with yaml.safe_load.                 *)
(*                                                                         *)
(* Requests run concurrently, and another process (the runtime's          *)
(* deployment tooling, an editor) may create, rewrite or delete the        *)
(* config files at any time, in particular between the os.path.isfile      *)
(* test and the open of the same path.                                     *)
(*                                                                         *)
(* A file is abstracted to what safe_load makes of it: Malformed (it       *)
(* raises YAMLError), EmptyDoc (None), ScalarDoc (a list or a string) or a *)
(* mapping, of which only the value under "compose" is kept.  A compose    *)
(* entry keeps the descriptor fields it has, each with the YAML scalar it  *)
(* holds (a string, an integer, null ...).                                 *)
(***************************************************************************)
EXTENDS Naturals, Sequences

CONSTANTS
  Requests,     \* concurrent HTTP requests
  Paths,        \* the three candidate paths, in search order
  Contents,     \* the documents a config file can hold
  NoFile,       \* no file at a path
  Malformed, EmptyDoc, ScalarDoc,
  NoKey,        \* the mapping has no "compose" key
  Null,         \* compose: (null)
  EmptyMap,     \* compose: {}
  MapVal,       \* compose is a non-empty mapping
  Scalars,      \* the YAML scalars a descriptor field can hold
  StrScalars,   \* those of them that are strings
  Junk,         \* a compose entry that is not a mapping
  None

PoolFields == {"mod_name", "pool_name", "pool_id", "pool_query"}

(* A compose entry: a mapping from the descriptor fields it has to their  *)
(* values, or Junk.                                                        *)
EntryVals == {Junk} \cup UNION {[F -> Scalars] : F \in SUBSET PoolFields}

Docs ==
  {Malformed, EmptyDoc, ScalarDoc}
    \cup [compose: {NoKey, Null, EmptyMap, MapVal} \cup Seq(EntryVals)]

ASSUME ConstantsAssumption ==
  /\ Paths \in Seq(STRING \cup {None})
  /\ Contents \subseteq Docs
  /\ NoFile \notin Docs
  /\ StrScalars \subseteq Scalars

VARIABLES
  files,     \* path -> document, or NoFile
  pc,        \* per request: "idle", "search", "open", "done"
  endpoint,  \* per request: "pools" or "config"
  idx,       \* per request: the candidate being tried
  resp       \* per request: the response, None while there is none

vars == <<files, pc, endpoint, idx, resp>>

CandidatePaths == {Paths[i] : i \in DOMAIN Paths} \ {None}

(* `path and os.path.isfile(path)` for the i-th candidate, in files f.     *)
IsFile(f, i) == Paths[i] # None /\ f[Paths[i]] # NoFile

(* The descriptor get_pools builds: entry.get(f, "") for the four fields,  *)
(* the entry's own value passed through as it is.                         *)
Descriptor(e) == [f \in PoolFields |-> IF f \in DOMAIN e THEN e[f] ELSE ""]

(* cfg.get("compose", []) or []: absent, null, {} and [] all give [].      *)
ComposeList(doc) ==
  IF doc.compose \in {NoKey, Null, EmptyMap} THEN << >> ELSE doc.compose

(* get_config on a config that is not None.                               *)
ConfigAnswer(doc) == [status |-> 200, config |-> doc]

(* get_pools on a config that is not None: cfg.get and entry.get raise     *)
(* AttributeError (500) on a document that is not a mapping and on         *)
(* entries that are not mappings; iterating a compose mapping yields its  *)
(* keys, which are strings (a non-empty mapping: 500).                     *)
PoolsAnswer(doc) ==
  IF doc = ScalarDoc \/ doc.compose = MapVal THEN [status |-> 500]
  ELSE LET c == ComposeList(doc)
       IN  IF \E i \in DOMAIN c : c[i] = Junk THEN [status |-> 500]
           ELSE [status |-> 200, pools |-> [i \in DOMAIN c |-> Descriptor(c[i])]]

-----------------------------------------------------------------------------
Init ==
  /\ files \in [CandidatePaths -> Contents \cup {NoFile}]
  /\ pc = [r \in Requests |-> "idle"]
  /\ endpoint = [r \in Requests |-> "pools"]
  /\ idx = [r \in Requests |-> 1]
  /\ resp = [r \in Requests |-> None]

(* A request to /api/pools or /api/config arrives and calls _load_config. *)
Start(r) ==
  /\ pc[r] = "idle"
  /\ \E ep \in {"pools", "config"} : endpoint' = [endpoint EXCEPT ![r] = ep]
  /\ pc' = [pc EXCEPT ![r] = "search"]
  /\ idx' = [idx EXCEPT ![r] = 1]
  /\ UNCHANGED <<files, resp>>

(* One candidate: `if path and os.path.isfile(path)`.  When every          *)
(* candidate fails, _load_config returns None and the handler answers 404. *)
Search(r) ==
  /\ pc[r] = "search"
  /\ IF idx[r] > Len(Paths)
     THEN /\ resp' = [resp EXCEPT ![r] = [status |-> 404]]
          /\ pc' = [pc EXCEPT ![r] = "done"]
          /\ UNCHANGED idx
     ELSE /\ IF IsFile(files, idx[r])
             THEN pc' = [pc EXCEPT ![r] = "open"] /\ UNCHANGED idx
             ELSE idx' = [idx EXCEPT ![r] = @ + 1] /\ UNCHANGED pc
          /\ UNCHANGED resp
  /\ UNCHANGED <<files, endpoint>>

(* Mutant: get_config without its `if cfg is None` (config.py 35-36): an  *)
(* empty file is answered 200 with config null.                           *)
OpenConfigNoNoneCheck(r) ==
  /\ pc[r] = "open"
  /\ LET doc == files[Paths[idx[r]]]
     IN  resp' = [resp EXCEPT ![r] =
                    IF doc \in {NoFile, Malformed} THEN [status |-> 500]
                    ELSE IF endpoint[r] = "config" THEN ConfigAnswer(doc)
                    ELSE IF doc = EmptyDoc THEN [status |-> 404]
                    ELSE PoolsAnswer(doc)]
  /\ pc' = [pc EXCEPT ![r] = "done"]
  /\ UNCHANGED <<files, endpoint, idx>>

(* open(path) and yaml.safe_load, then the handler.  A file removed since  *)
(* the isfile test raises FileNotFoundError, a malformed one YAMLError:    *)
(* neither is caught (500).  An empty document is None: 404.               *)
Open(r) ==
  /\ pc[r] = "open"
  /\ LET doc == files[Paths[idx[r]]]
     IN  resp' = [resp EXCEPT ![r] =
                    IF doc \in {NoFile, Malformed} THEN [status |-> 500]
                    ELSE IF doc = EmptyDoc THEN [status |-> 404]
                    ELSE IF endpoint[r] = "config" THEN ConfigAnswer(doc)
                    ELSE PoolsAnswer(doc)]
  /\ pc' = [pc EXCEPT ![r] = "done"]
  /\ UNCHANGED <<files, endpoint, idx>>

(* The handler returns.                                                    *)
Return(r) ==
  /\ pc[r] = "done"
  /\ pc' = [pc EXCEPT ![r] = "idle"]
  /\ resp' = [resp EXCEPT ![r] = None]
  /\ UNCHANGED <<files, endpoint, idx>>

(* Another process writes or deletes a config file.                        *)
WriteFile ==
  /\ \E p \in CandidatePaths, d \in Contents \cup {NoFile} :
       /\ d # files[p]
       /\ files' = [files EXCEPT ![p] = d]
  /\ UNCHANGED <<pc, endpoint, idx, resp>>

Next ==
  \/ WriteFile
  \/ \E r \in Requests : Start(r) \/ Search(r) \/ Open(r) \/ Return(r)

Spec == Init /\ [][Next]_vars

-----------------------------------------------------------------------------
(* What a 200 of get_config carries: a parsed document, never None.        *)
ConfigDocs == Docs \ {Malformed, EmptyDoc}

(* A pool descriptor: each field the entry's value, or "".                *)
DescriptorType == [PoolFields -> Scalars \cup {""}]

ResponseType ==
  {None} \cup [status: {404, 500}]
    \cup [status: {200}, config: ConfigDocs]
    \cup [status: {200}, pools: Seq(DescriptorType)]

(* Every answer is a 404, a 500, a 200 of get_config carrying a parsed     *)
(* document (an empty file is never answered 200 with config null), or a  *)
(* 200 of get_pools whose descriptors carry the four fields, "" when      *)
(* absent.                                                                 *)
TypeOK ==
  /\ files \in [CandidatePaths -> Contents \cup {NoFile}]
  /\ pc \in [Requests -> {"idle", "search", "open", "done"}]
  /\ endpoint \in [Requests -> {"pools", "config"}]
  /\ idx \in [Requests -> 1..Len(Paths) + 1]
  /\ resp \in [Requests -> ResponseType]

(* Spec section 6: a pool descriptor's mod_name, pool_name, pool_id and    *)
(* pool_query are strings.  get_pools passes entry.get(f, "") through as  *)
(* it is, so a numeric pool_id in the YAML reaches the client as a number. *)
DescriptorFieldsAreStrings ==
  \A r \in Requests :
    resp[r] # None /\ resp[r].status = 200 /\ endpoint[r] = "pools" =>
      \A i \in DOMAIN resp[r].pools, f \in PoolFields :
        resp[r].pools[i][f] \in StrScalars \cup {""}

(* Spec sections 4.4 and 7: GetPools reports "not found" only when no     *)
(* config source exists, that is when the search found no file.  An       *)
(* existing but empty config file parses to None and is answered 404       *)
(* "config not found" as well.                                             *)
NotFoundOnlyWhenAbsent ==
  \A r \in Requests :
    resp[r] # None /\ resp[r].status = 404 => idx[r] > Len(Paths)

(* Spec section 7: the only errors are SourceUnavailable and NotFound; a  *)
(* config source that errors is SourceUnavailable, never an unhandled     *)
(* failure.  A file deleted by another process between the isfile test    *)
(* and the open makes the handler raise FileNotFoundError: 500.            *)
OnlyDocumentedErrors ==
  \A r \in Requests : resp[r] # None => resp[r].status # 500
=============================================================================
