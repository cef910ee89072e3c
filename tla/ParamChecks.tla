---------------------------- MODULE ParamChecks ----------------------------
(***************************************************************************)
(* Parameters set on several nodes at once by the assistants' tools        *)
(* (src/mcp/tools/params.go): for each node, at the same time, the values  *)
(* are repaired to the types its own configuration declares and judged     *)
(* against it (src/rmneo/service/params, src/rmneo/service/config), and    *)
(* published or refused.  A node writes its configuration at any time.     *)
(***************************************************************************)
EXTENDS Integers

CONSTANTS
    TargetNode,         \* the nodes of a request
    MaxRewrites         \* bound: configurations written meanwhile

ASSUME ChecksConstants == MaxRewrites \in Nat

VARIABLES
    nodeConfig,     \* [TargetNode -> its configuration]
    grouped,        \* the nodes that are in the group
    input,          \* the request's parameters, one map for all nodes
    asked,          \* history: what the client sent
    checks,         \* [TargetNode -> where its part of the request is]
    rewrites

checksVars == <<nodeConfig, grouped, input, asked, checks, rewrites>>

\* Numbers are counted in halves: 1 is a fraction.  A text is a number's
\* digits, a word for a truth value, or neither.
Numbers == {0, 1, 2, 4}
Value ==
    [form : {"bool"}, of : {"true"}] \union [form : {"number"}, num : Numbers]
    \union [form : {"digits"}, num : Numbers] \union [form : {"word"}, of : {"true", "other"}]
    \union [form : {"null"}, of : {"null"}]

\* A request names a parameter "p", one that no node declares, or both.
Unasked == [form |-> "unasked"]
Request == [p : Value \union {Unasked}, q : {Unasked, [form |-> "bool", of |-> "true"]}]

\* What a configuration says of "p".  Bounds that are empty are not usable.
\* (Bounds matter to numbers; a parameter that is read-only is refused first.)
Declared ==
    [type : {"int", "any"}, writable : {TRUE}, bounds : {<<0, 2>>, <<2, 2>>}] \union
    [type : {"bool", "string"}, writable : {TRUE}, bounds : {<<0, 2>>}] \union
    [type : {"bool"}, writable : {FALSE}, bounds : {<<0, 2>>}]
\* SkipValidation: no configuration, one that does not decode, Matter, no device
Config == [judged : {TRUE}, p : Declared] \union [judged : {FALSE}]

----------------------------------------------------------------------------
(* Values *)

Number(v) == v.form = "number"
ToNumber(v) == v.form = "digits"
Fraction(v) == v.num % 2 = 1

\* ToBool: a word, or 1 or 0, written as a number or as a text.
BoolOf(v) ==
    CASE v.form = "word" /\ v.of = "true" -> "true"
      [] v.form \in {"number", "digits"} /\ v.num = 2 -> "true"
      [] v.form \in {"number", "digits"} /\ v.num = 0 -> "false"
      [] OTHER -> "none"

\* repairValue: an unambiguous value of another type becomes one of the type.
Repaired(declared, v) ==
    IF declared.type = "bool" /\ v.form # "bool" /\ BoolOf(v) # "none"
    THEN [form |-> "bool", of |-> BoolOf(v)]
    ELSE IF declared.type = "int" /\ ToNumber(v) /\ ~ Fraction(v)
    THEN [form |-> "number", num |-> v.num]
    ELSE v

\* Repair: the parameters that the configuration declares.
Repair(config, params) ==
    IF ~ config.judged \/ params.p = Unasked THEN params
    ELSE [params EXCEPT !.p = Repaired(config.p, @)]

TypeMismatch(declared, v) ==
    CASE declared.type = "bool" -> v.form # "bool"
      [] declared.type = "int" -> ~ Number(v) \/ Fraction(v)
      [] declared.type = "string" -> v.form \notin {"digits", "word"}
      [] declared.type = "any" -> FALSE

Usable(bounds) == bounds[1] < bounds[2]
OutOfBounds(declared, v) ==
    /\ Number(v) /\ Usable(declared.bounds)
    /\ v.num \notin declared.bounds[1] .. declared.bounds[2]

\* validateDevice, validateParam: the request is refused for any violation.
Violations(config, params) ==
    IF ~ config.judged THEN {}
    ELSE (IF params.q # Unasked THEN {"unknown_param"} ELSE {}) \union
         (IF params.p = Unasked THEN {}
          ELSE IF ~ config.p.writable THEN {"read_only"}
          ELSE IF params.p.form = "null" THEN {}
          ELSE IF TypeMismatch(config.p, params.p) THEN {"wrong_type"}
          ELSE IF OutOfBounds(config.p, params.p) THEN {"out_of_bounds"} ELSE {})

----------------------------------------------------------------------------
ChecksInit ==
    /\ nodeConfig \in [TargetNode -> Config]
    /\ grouped = TargetNode
    /\ asked \in {r \in Request : r.p # Unasked \/ r.q # Unasked}
    /\ input = asked
    /\ checks = [n \in TargetNode |-> [at |-> "new"]]
    /\ rewrites = 0

\* setNodeConfig: only the node itself writes it (or a Matter controller,
\* for a node that only speaks Matter, which is never judged).
SetNodeConfig(n, config) ==
    /\ rewrites < MaxRewrites /\ config # nodeConfig[n]
    /\ rewrites' = rewrites + 1
    /\ nodeConfig' = [nodeConfig EXCEPT ![n] = config]
    /\ UNCHANGED <<grouped, input, asked, checks>>

LeavesGroup(n) ==
    /\ rewrites < MaxRewrites /\ n \in grouped
    /\ rewrites' = rewrites + 1
    /\ grouped' = grouped \ {n}
    /\ UNCHANGED <<nodeConfig, input, asked, checks>>

\* authorizeNodeInGroup, then the configuration is read.
ChecksNode(n) ==
    /\ checks[n].at = "new"
    /\ checks' = [checks EXCEPT ![n] =
          IF n \in grouped THEN [at |-> "judge", config |-> nodeConfig[n]]
          ELSE [at |-> "failed"]]
    /\ UNCHANGED <<nodeConfig, grouped, input, asked, rewrites>>

\* Mutant: the map is repaired in place, for the next node to see.
InputRepaired(config) == Repair(config, input)
\* The input map is never written: each node's repair is a copy.
InputAfter(config) == input

\* The repaired parameters are judged, and they are what is published.
Judges(n) ==
    LET config == checks[n].config
        payload == Repair(config, input)
    IN  /\ checks[n].at = "judge"
        /\ checks' = [checks EXCEPT ![n] =
              IF Violations(config, payload) = {}
              THEN [at |-> "published", config |-> config, payload |-> payload]
              ELSE [at |-> "refused"]]
        /\ input' = InputAfter(config)
        /\ UNCHANGED <<nodeConfig, grouped, asked, rewrites>>

\* The publish fails.
PublishFails(n) ==
    /\ checks[n].at = "judge" /\ Violations(checks[n].config, Repair(checks[n].config, input)) = {}
    /\ checks' = [checks EXCEPT ![n] = [at |-> "failed"]]
    /\ input' = InputAfter(checks[n].config)
    /\ UNCHANGED <<nodeConfig, grouped, asked, rewrites>>

ChecksNext ==
    \E n \in TargetNode :
        \/ LeavesGroup(n) \/ ChecksNode(n) \/ Judges(n) \/ PublishFails(n)
        \/ \E config \in Config : SetNodeConfig(n, config)

ChecksSpec == ChecksInit /\ [][ChecksNext]_checksVars

----------------------------------------------------------------------------
\* Configurations, requests and their parts keep their types.
ChecksTypeOK ==
    /\ nodeConfig \in [TargetNode -> Config] /\ grouped \subseteq TargetNode
    /\ asked \in Request /\ rewrites \in 0 .. MaxRewrites
    /\ \A n \in TargetNode : checks[n].at \in {"new", "judge", "published", "refused", "failed"}

\* What a value means, whatever its form: for a truth value the word, 1 and 0
\* included; for a number its digits.
SameTruth(v, w) == v.form = "bool" /\ w.form # "bool" /\ v.of = BoolOf(w)
SameNumber(v, w) == Number(v) /\ w.form = "digits" /\ v.num = w.num
SameMeaning(v, w) == v = w \/ SameTruth(v, w) \/ SameNumber(v, w)

Published == {n \in TargetNode : checks[n].at = "published"}

\* What reaches a node is all of what the client asked, and means the same: no
\* repair for another node, made at the same time, shows in it, and no value
\* is repaired into acceptability (params.go, comment of Repair).
PublishedAsAsked ==
    \A n \in Published :
        /\ checks[n].payload.q = asked.q
        /\ SameMeaning(checks[n].payload.p, asked.p)
        /\ ~ checks[n].config.judged => checks[n].payload = asked
        /\ checks[n].config.judged /\ checks[n].config.p.type \in {"string", "any"}
           => checks[n].payload = asked

\* What reaches a node is what the configuration read for it allows: declared,
\* writable, of its type and within its bounds.
PublishedFits ==
    \A n \in Published :
        LET config == checks[n].config
            v == checks[n].payload.p
        IN  config.judged =>
            /\ checks[n].payload.q = Unasked
            /\ v.form \notin {"unasked", "null"} =>
               /\ config.p.type = "bool" => v.form = "bool"
               /\ config.p.type = "int" => v.form = "number" /\ v.num \in {0, 2, 4}
               /\ config.p.type = "string" => v.form \in {"digits", "word"}
               /\ v.form = "number" /\ config.p.bounds = <<0, 2>> => v.num <= 2
            /\ v # Unasked => config.p.writable
=============================================================================
