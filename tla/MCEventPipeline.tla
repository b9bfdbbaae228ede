-------------------------- MODULE MCEventPipeline --------------------------
(***************************************************************************)
(* An instance of EventPipeline.  All limits are those of the code.  One   *)
(* request goes through everything that makes a value or an event special, *)
(* while another sends plain events.                                       *)
(***************************************************************************)
EXTENDS EventPipeline, TLC

CONSTANTS r1, r2

Limits == IntentKey :> 2048

Plain  == At(FirstOrdinaryKey, Text(20))
Secret(len) == [Text(len) EXCEPT !.secret = 48]
Binary(len) == [Text(len) EXCEPT !.binary = TRUE]
Wide(len)   == [Text(len) EXCEPT !.width = 6]

\* n ordinary keys, and n keys that sort before all of the SDK's.
Many(n, v)  == [p \in {<<FirstOrdinaryKey + i>> : i \in 1..n} |-> v]
Early(n, v) == [p \in {<<-i>> : i \in 1..n} |-> v]

\* A chain of maps with a leaf at depth n.
Chain(n, v) ==
    [p \in {[i \in 1..len |-> FirstOrdinaryKey] : len \in 1..n} |->
        IF Len(p) = n THEN v ELSE Leaf("map")]

\* A slice of two under the key of content, below a tree's place prefix.
InSlice(prefix, key, a, b) ==
    prefix \o <<key>> :> Leaf("slice")
        @@ prefix \o <<key, 1>> :> a
        @@ prefix \o <<key, 2>> :> b

\* Something of everything that is redacted in JSON, at several depths, and in Go.
JSONSecrets ==
    Under(FirstOrdinaryKey, At(PasswordKey, Leaf("map"))
                                @@ <<PasswordKey, TextKey>> :> Secret(60)
                                @@ At(TextKey, Secret(60)))
        @@ InSlice(<<>>, FirstOrdinaryKey + 1, Leaf("map"), Binary(10240))
        @@ <<FirstOrdinaryKey + 1, 1, PasswordKey>> :> Text(8)
        @@ At(FirstOrdinaryKey + 2, Binary(10239))
        @@ At(PasswordKey, Text(8))

GoSecrets ==
    JSONSecrets
        @@ At(FirstOrdinaryKey + 3, [Secret(60) EXCEPT !.kind = "error"])
        @@ At(FirstOrdinaryKey + 4, Leaf("bytes"))

\* Content blocks at the top and as deep as they are still looked at; in Go, loops.
JSONContent(depth) ==
    LET q == [i \in 1..depth |-> FirstOrdinaryKey]
        media == q \o <<ContentKey, 1>>
        resource == q \o <<ContentKey, 2>>
    IN  Chain(depth, Leaf("map"))
           @@ InSlice(q, ContentKey, Leaf("map"), Leaf("map"))
           @@ media \o <<TypeKey>> :> [Text(5) EXCEPT !.names = "media"]
           @@ media \o <<TextKey>> :> Binary(10240)
           @@ resource \o <<TypeKey>> :> [Text(8) EXCEPT !.names = "resource"]
           @@ resource \o <<ResourceKey>> :> Leaf("map")
           @@ resource \o <<ResourceKey, BlobKey>> :> Text(9)

\* Also one of a type nobody knows, within another, and one of a long type.
Content(depth) ==
    LET q == [i \in 1..depth |-> FirstOrdinaryKey] \o <<ContentKey, 3>>
    IN  JSONContent(depth)
           @@ q :> Leaf("map")
           @@ q \o <<TypeKey>> :> Text(40000)
           @@ q \o <<TextKey>> :> Leaf("backmap")
           @@ InSlice(q, ContentKey, Leaf("map"), TextType)
           @@ q \o <<ContentKey, 1, TypeKey>> :> Text(3)

Anonymous == NoPerson
Ann       == Snapshot([distinctID |-> Text(12), set |-> GoSecrets,
                       groups |-> At(PasswordKey, Text(9))])
Crowd     == Snapshot([Ann EXCEPT !.groups = Many(4, Text(40000))])

\* What EventProperties may return: an answer that tries to say who it was, and another
\* one, which a map that is changed may also hold.
Answer  == At(FirstOrdinaryKey, Text(1)) @@ At(ToolKey, Text(9))
              @@ At(SessionKey, Text(41)) @@ At(ProfileKey, Leaf("bytes"))
Another == At(FirstOrdinaryKey, Text(2))

Call(body) ==
    [custom |-> FALSE, attributed |-> TRUE, identify |-> FALSE, failed |-> FALSE,
     name |-> Text(0), session |-> Text(40), person |-> Anonymous, body |-> body,
     resolves |-> {}]

Capture(name, body) == [Call(body) EXCEPT !.custom = TRUE, !.name = name]
Outside(life)       == [life EXCEPT !.attributed = FALSE]

Arrivals ==
    r1 :> {[Call(Plain) EXCEPT !.identify = TRUE, !.failed = TRUE, !.person = Ann],
           [Call(Plain) EXCEPT !.identify = TRUE, !.person = Ann, !.resolves = {Answer, Another}],
           [Call(JSONContent(2)) EXCEPT !.failed = TRUE, !.resolves = {Answer}],
           [Call(JSONSecrets) EXCEPT !.failed = TRUE, !.person = Crowd],
           Call(JSONContent(6)), Call(JSONContent(7)), Call(Chain(12, Secret(60))),
           Capture(Text(30), Content(0) @@ At(IntentKey, Text(3000))), Capture(Text(30), Content(7)),
           [Call(Chain(4, Leaf("map")) @@ Many(3, Text(100000))) EXCEPT
               !.resolves = {Chain(3, Text(32768))}],
           Call(Under(FirstOrdinaryKey, Many(5, Text(30000)))),
           Capture(Text(30), Many(102, Text(1100))),
           Capture(Text(30), Many(100, Wide(180))),
           Capture(Text(50000), Many(3, Text(40000)) @@ At(SetKey, Text(3))),
           Capture(Text(30), At(EventKey, Text(40000)) @@ Many(3, Text(40000))),
           Capture(Wide(32768), At(EventKey, Text(40000))),
           Capture(Text(30), Plain @@ At(FirstOrdinaryKey + 1, Leaf("badnumber"))),
           Capture(Text(30), Chain(4, Leaf("badnumber"))),
           Capture(Text(30), Early(95, Text(5)) @@ Plain),
           Capture(Text(30), Early(98, Text(5)) @@ Plain),
           Outside(Capture(Secret(60), GoSecrets)),
           Outside(Capture(Text(30), Plain @@ At(SessionKey, Text(41))))}
    @@ r2 :> {Call(Plain)}
=============================================================================
