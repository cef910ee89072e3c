---------------------------- MODULE VoiceControl ----------------------------
(***************************************************************************)
(* Voice assistants (src/alexa, src/gva, src/smartthings): a lamp is       *)
(* discovered with a cookie that names its group and its parameters; a     *)
(* command checks the caller's access, perhaps reads the reported shadow,  *)
(* publishes parameters on a topic of the lamp's group and answers with    *)
(* the state to expect.  Each assistant converts in its own way.           *)
(***************************************************************************)
EXTENDS Integers, Sequences

CONSTANTS
    House, NoHouse,     \* groups
    SkillCall,            \* invocations of the skills
    FullLevel,          \* brightness 100
    Hue, Warmth, Speed, \* values of the other parameters
    MaxChanges          \* bound: changes by hand, and moves of the lamp

ASSUME VoiceConstants ==
    /\ NoHouse \notin House
    /\ FullLevel \in Nat \ {0}
    /\ SkillCall \intersect {"none", "hand"} = {}
    /\ MaxChanges \in Nat

Assistant == {"alexa", "gva", "smartthings"}
Levels == 0 .. FullLevel

VARIABLES
    lamp,           \* the device's parameters
    lampHouse,      \* the group it is in
    mayUse,         \* the groups the caller is a member of
    lampParams,     \* the parameters its configuration has
    online,         \* it is connected
    shadow,         \* reported: its parameters, and whether it is online
    wire,           \* messages on their way to it
    skill,          \* the assistant the caller uses
    cookie,         \* what its discovery told
    request,        \* [SkillCall -> state of an invocation]
    changes,        \* history: changes by hand and moves
    applied         \* history: the request whose message the lamp took last

voiceVars == <<lamp, lampHouse, mayUse, lampParams, online, shadow, wire, skill,
               cookie, request, changes, applied>>
lampVars == <<lamp, lampHouse, online, applied>>
settings == <<mayUse, lampParams, skill>>

AllParams == {"on", "level", "hue", "warm", "mode", "speed"}
Lamp == [on : BOOLEAN, level : Levels, hue : Hue, warm : Warmth,
         mode : {"hsv", "cct"}, speed : Speed]
Command == {<<"on", TRUE>>, <<"on", FALSE>>} \union ({"level"} \X Levels)
             \union ({"adjust"} \X {-1, 1}) \union ({"hue"} \X Hue)
             \union ({"warm"} \X Warmth) \union ({"speed"} \X Speed)
NoRequest == [at |-> "none", command |-> <<"none", 0>>, house |-> NoHouse,
              saw |-> "none", params |-> <<>>, lit |-> FALSE]

VoiceInit ==
    /\ \E h \in Hue, w \in Warmth, s \in Speed, m \in {"hsv", "cct"} :
          lamp = [on |-> FALSE, level |-> FullLevel, hue |-> h, warm |-> w, mode |-> m, speed |-> s]
    /\ lampHouse \in House
    /\ mayUse \in SUBSET House
    /\ lampParams \in {AllParams, AllParams \ {"mode"}}
    /\ online = TRUE
    /\ shadow = [online |-> TRUE, params |-> lamp]
    /\ wire = <<>>
    /\ skill \in Assistant
    /\ cookie = [house |-> NoHouse, params |-> {}]
    /\ request = [r \in SkillCall |-> NoRequest]
    /\ changes = 0
    /\ applied = "none"

----------------------------------------------------------------------------
(* The lamp *)

AtHome == lampHouse \in mayUse
Has(c, param) == param \in c.params

\* One thing set; as a record of parameters.
Param(name, value) == [n \in {name} |-> value]
\* The parameters new set over the parameters old.
Over(new, old) ==
    [n \in DOMAIN new \union DOMAIN old |-> IF n \in DOMAIN new THEN new[n] ELSE old[n]]

\* An answer is remembered while its message is on its way or taken last.
Remembered(last) ==
    [r \in SkillCall |->
        IF request[r].at = "answered" /\ r # last
              /\ \A i \in 1 .. Len(wire') : wire'[i].from # r
        THEN NoRequest ELSE request[r]]

\* A message of the group's topic, which the lamp subscribes to while it is
\* in the group and connected; its new state is reported.
Takes ==
    /\ wire # <<>>
    /\ wire' = Tail(wire)
    /\ IF online /\ Head(wire).house = lampHouse
       THEN /\ lamp' = Over(Head(wire).params, lamp)
            /\ applied' = Head(wire).from
       ELSE UNCHANGED <<lamp, applied>>
    /\ request' = Remembered(applied')
    /\ UNCHANGED <<lampHouse, settings, online, shadow, cookie, changes>>

Reports ==
    /\ online
    /\ shadow # [online |-> TRUE, params |-> lamp]
    /\ shadow' = [online |-> TRUE, params |-> lamp]
    /\ UNCHANGED <<lampVars, settings, wire, cookie, request, changes>>

ByHand ==
    /\ changes < MaxChanges
    /\ changes' = changes + 1
    /\ \E on \in BOOLEAN, level \in Levels :
          lamp' = [lamp EXCEPT !.on = on, !.level = level]
    /\ applied' = "hand"
    /\ request' = [r \in SkillCall |-> [request[r] EXCEPT !.lit = FALSE]]
    /\ UNCHANGED <<lampHouse, settings, online, shadow, wire, cookie>>

Moves(h) ==
    /\ changes < MaxChanges
    /\ changes' = changes + 1
    /\ h # lampHouse
    /\ lampHouse' = h
    /\ UNCHANGED <<lamp, settings, online, shadow, wire, cookie, request, applied>>

\* The connection is lost, and found out (NodePresence).
Drops ==
    /\ online /\ changes < MaxChanges
    /\ changes' = changes + 1
    /\ online' = FALSE
    /\ shadow' \in {shadow, [shadow EXCEPT !.online = FALSE]}
    /\ UNCHANGED <<lamp, lampHouse, settings, wire, cookie, request, applied>>

\* A parameter the lamp does not have is not in its cookie; SmartThings keeps
\* none, and reads the configuration at each command.
AlexaCookie == [house |-> lampHouse, params |-> lampParams]
GvaCookie == [house |-> lampHouse, params |-> lampParams]
SmartThingsCookie == [house |-> lampHouse, params |-> {}]

\* A discovery lists the nodes of the caller's groups.
Discovers ==
    /\ AtHome
    /\ cookie' = CASE skill = "alexa" -> AlexaCookie
                   [] skill = "gva" -> GvaCookie
                   [] OTHER -> SmartThingsCookie
    /\ UNCHANGED <<lampVars, settings, shadow, wire, request, changes>>

----------------------------------------------------------------------------
(* What a command publishes, given the parameters it read.                 *)

Clamped(level) == IF level < 0 THEN 0 ELSE IF level > FullLevel THEN FullLevel ELSE level

\* Switched on from level 0, the lamp is also made bright.
AlexaOn(value, saw) ==
    IF value /\ saw.level = 0 THEN Over(Param("on", value), Param("level", FullLevel))
    ELSE Param("on", value)
AlexaLevel(level) == Over(Param("level", Clamped(level)), Param("on", Clamped(level) > 0))
\* A step counts from what is seen of the lamp: from 0 when it is off.
AlexaAdjust(step, saw) == AlexaLevel((IF saw.on THEN saw.level ELSE 0) + step)
\* Mutant: the colour is set, the mode is not.
AlexaColourOnly(hue, c) == Over(Param("hue", hue), Param("on", TRUE))
InMode(mode, params, c) ==
    IF Has(c, "mode") THEN Over(params, Param("mode", mode)) ELSE params
AlexaColour(hue, c) == InMode("hsv", Over(Param("hue", hue), Param("on", TRUE)), c)
AlexaWarmth(warm, c) == InMode("cct", Over(Param("warm", warm), Param("on", TRUE)), c)

AlexaParams(name, value, c, saw) ==
    CASE name = "on" -> AlexaOn(value, saw)
      [] name = "level" -> AlexaLevel(value)
      [] name = "adjust" -> AlexaAdjust(value, saw)
      [] name = "hue" -> AlexaColour(value, c)
      [] name = "warm" -> AlexaWarmth(value, c)

\* The two others set the one parameter they are asked to set, by the name the
\* cookie has for it (Google) or the configuration (SmartThings).
GvaSwitch(name, value) == Param(name, value)
GvaColour(name, value) == Param(name, value)
GvaSpeed(value) == Param("speed", value)
GvaParams(name, value) ==
    CASE name \in {"on", "level"} -> GvaSwitch(name, value)
      [] name \in {"hue", "warm"} -> GvaColour(name, value)
      [] name = "speed" -> GvaSpeed(value)

SmartThingsSwitch(name, value) == Param(name, value)
SmartThingsColour(name, value) == Param(name, value)
SmartThingsSpeed(value) == Param("speed", value)
SmartThingsParams(name, value) ==
    CASE name \in {"on", "level"} -> SmartThingsSwitch(name, value)
      [] name \in {"hue", "warm"} -> SmartThingsColour(name, value)
      [] name = "speed" -> SmartThingsSpeed(value)

Knows(name) == IF skill = "alexa" THEN name # "speed" ELSE name # "adjust"
ParamsOf(name, value, saw) ==
    CASE skill = "alexa" -> AlexaParams(name, value, cookie, saw)
      [] skill = "gva" -> GvaParams(name, value)
      [] OTHER -> SmartThingsParams(name, value)

----------------------------------------------------------------------------
(* What an assistant is told of a reported state.  A lamp without a mode   *)
(* shows both its colour and its warmth to Alexa, its colour to Google.    *)

ModeOf(params) == IF "mode" \in lampParams THEN params.mode ELSE "unknown"
AlexaSees(params) ==
    {"on", "level"} \union (IF ModeOf(params) # "cct" THEN {"hue"} ELSE {})
                    \union (IF ModeOf(params) # "hsv" THEN {"warm"} ELSE {})
GvaSees(params) ==
    {"on", "level", "speed"} \union (IF ModeOf(params) = "cct" THEN {"warm"} ELSE {"hue"})
SmartThingsSees(params) == {"on", "level", "hue", "warm", "speed"}
Sees(params) ==
    CASE skill = "alexa" -> AlexaSees(params)
      [] skill = "gva" -> GvaSees(params)
      [] OTHER -> SmartThingsSees(params)

----------------------------------------------------------------------------
(* A command *)

\* SmartThings has no group in its cookie: the caller's nodes are listed.
CommandHouse == IF skill = "smartthings" THEN (IF AtHome THEN lampHouse ELSE NoHouse)
          ELSE cookie.house

\* LoadNodePermissions: the group is the caller's, and the lamp is in it.
Allowed == CommandHouse = lampHouse /\ AtHome

Begins(r, command) ==
    /\ request[r].at = "none"
    /\ Knows(command[1])
    /\ cookie.house # NoHouse
    /\ Allowed
    /\ request' = [request EXCEPT ![r] = [NoRequest EXCEPT !.at = "read", !.command = command,
                                                          !.house = CommandHouse]]
    /\ UNCHANGED <<lampVars, settings, shadow, wire, cookie, changes>>

\* Google and SmartThings refuse a lamp reported offline; Alexa does not ask.
Refuses(r) ==
    /\ request[r].at = "read"
    /\ skill # "alexa" /\ ~shadow.online
    /\ request' = [request EXCEPT ![r] = NoRequest]
    /\ UNCHANGED <<lampVars, settings, shadow, wire, cookie, changes>>

Reads(r) ==
    /\ request[r].at = "read"
    /\ skill = "alexa" \/ shadow.online
    /\ request' = [request EXCEPT ![r].at = "publish",
                        ![r].saw = [on |-> shadow.params.on, level |-> shadow.params.level],
                        ![r].lit = (wire = <<>> /\ shadow.params = lamp)]
    /\ UNCHANGED <<lampVars, settings, shadow, wire, cookie, changes>>

\* The topic has the group whose permissions were loaded.
TopicOf(r) == request[r].house

Publishes(r) ==
    LET q == request[r]
        params == ParamsOf(q.command[1], q.command[2], q.saw)
    IN  /\ q.at = "publish"
        /\ wire' = Append(wire, [house |-> TopicOf(r), params |-> params, from |-> r])
        /\ request' = [p \in SkillCall |->
              IF p = r THEN [q EXCEPT !.at = "answered", !.params = params, !.saw = NoRequest.saw]
              ELSE [request[p] EXCEPT !.lit = FALSE]]
        /\ UNCHANGED <<lampVars, settings, shadow, cookie, changes>>

VoiceNext ==
    \/ Takes \/ Reports \/ ByHand \/ Drops \/ Discovers
    \/ \E h \in House : Moves(h)
    \/ \E r \in SkillCall :
          \/ \E command \in Command : Begins(r, command)
          \/ Refuses(r) \/ Reads(r) \/ Publishes(r)

VoiceSpec == VoiceInit /\ [][VoiceNext]_voiceVars

----------------------------------------------------------------------------
\* The lamp, its shadow and the requests keep their types.
VoiceTypeOK ==
    /\ lamp \in Lamp /\ shadow \in [online : BOOLEAN, params : Lamp]
    /\ lampHouse \in House /\ mayUse \subseteq House
    /\ lampParams \subseteq AllParams /\ online \in BOOLEAN
    /\ \A i \in 1 .. Len(wire) : /\ wire[i].house \in House /\ wire[i].from \in SkillCall
                                 /\ DOMAIN wire[i].params \subseteq AllParams
    /\ skill \in Assistant
    /\ cookie \in [house : House \union {NoHouse}, params : SUBSET AllParams]
    /\ \A r \in SkillCall : request[r].at \in {"none", "read", "publish", "answered"}
    /\ changes \in 0 .. MaxChanges
    /\ applied \in SkillCall \union {"none", "hand"}

\* Google sets a colour or a warmth without the lamp's mode.
LeavesMode(q) == skill # "alexa" /\ q.command[1] \in {"hue", "warm"}

\* What a command answered is what the assistant reads of the lamp once the
\* lamp took it and reported, whatever mode, level or cookie it had before.
AnswerComesTrue ==
    \A r \in SkillCall :
        LET q == request[r]
            told == DOMAIN q.params \ {"mode"}
        IN  /\ q.at = "answered" /\ applied = r /\ ~LeavesMode(q)
            /\ shadow.params = lamp
            => /\ told \subseteq Sees(shadow.params)
               /\ \A name \in told : shadow.params[name] = q.params[name]

\* A lamp that Alexa was asked to switch on gives light, if Alexa saw the lamp
\* as it was (a command read a stale shadow otherwise).
SwitchedOnIsLit ==
    \A r \in SkillCall :
        /\ request[r].at = "answered" /\ applied = r /\ request[r].lit
        /\ skill = "alexa" /\ request[r].command = <<"on", TRUE>>
        => lamp.on /\ lamp.level > 0

\* What an assistant was told of a command shows in the light.
CommandsTakeHold == AnswerComesTrue /\ SwitchedOnIsLit
=============================================================================
