---------------------------- MODULE ClientQueries ----------------------------
(***************************************************************************)
(* The queries of the web client (web/src/lib/hooks/queries.ts), the pages *)
(* that observe them, and what each write (mutations.ts, and the pages     *)
(* that write themselves) does to them.  Server data is divided as far as  *)
(* the queries tell it apart.                                              *)
(***************************************************************************)
EXTENDS FiniteSets

-----------------------------------------------------------------------------
(* The queries: what each reads at the server.                             *)

WallQueries ==
    [k \in {"wall-detail", "reset-diff", "wall-stats", "holds"} |->
        CASE k = "wall-detail" -> {"name", "image", "detection", "role"}
          [] k = "reset-diff"  -> {"image", "detection", "matches", "holds", "routes"}
          [] k = "wall-stats"  -> {"image", "holds", "routes", "logs", "ratings", "profile"}
          [] k = "holds"       -> {"image", "detection", "holds"}]

RouteQueries ==
    [k \in {"routes", "circuits", "route-detail", "climb-logs", "beta-videos"} |->
        CASE k = "circuits"    -> {"circuits", "routes", "profile"}
          [] k = "climb-logs"  -> {"logs"}
          [] k = "beta-videos" -> {"videos", "profile"}
          [] OTHER             -> {"image", "remaps", "routes", "logs", "ratings", "videos"}]

FeedQueries ==
    [k \in {"activity", "logbook"} |->
        IF k = "activity" THEN {"image", "routes", "logs", "profile"} ELSE {"name", "routes", "logs"}]

AccountQueries ==
    [k \in {"me", "walls"} |-> IF k = "me" THEN {"profile", "role"} ELSE {"name", "image"}]

Keys == DOMAIN WallQueries \cup DOMAIN RouteQueries \cup DOMAIN FeedQueries \cup DOMAIN AccountQueries

Reads(k) ==
    CASE k \in DOMAIN WallQueries  -> WallQueries[k]
      [] k \in DOMAIN RouteQueries -> RouteQueries[k]
      [] k \in DOMAIN FeedQueries  -> FeedQueries[k]
      [] OTHER                     -> AccountQueries[k]

\* What each page observes, beside the profile that the navigation bar observes on
\* all of them.  The feed is a view of the wall page.
Wall == {"wall-detail", "holds", "routes", "circuits"}

Observes ==
    [walls    |-> {"me", "walls"},
     climbs   |-> Wall,
     feed     |-> Wall \cup {"activity"},
     route    |-> Wall \cup {"route-detail", "climb-logs", "beta-videos", "activity"},
     create   |-> {},
     camera   |-> {},
     review   |-> {"reset-diff", "wall-detail"},
     circuits |-> {"circuits", "routes"},
     stats    |-> {"logbook", "walls", "holds", "routes", "wall-detail"},
     wallstats |-> {"wall-stats", "wall-detail", "holds"},
     logbook  |-> {"logbook"},
     invite   |-> {},
     profile  |-> {"me"}]

Pages == DOMAIN Observes

\* Views of one page keep its queries mounted.
SamePage(p, q) == {p, q} \subseteq {"climbs", "feed"}

-----------------------------------------------------------------------------
(* The writes: from where, of what, which queries are invalidated, which   *)
(* are removed, and where the page goes when the write has succeeded.      *)

Write(on, writes, stale) ==
    [on |-> on, writes |-> writes, stale |-> stale, removed |-> {}, to |-> {}]

ResetQueries == {"reset-diff", "wall-detail", "holds", "routes", "circuits", "wall-stats"}

ResetWrites ==
    LET review(writes) == Write({"review"}, writes, ResetQueries)
    IN  [match      |-> review({"matches"}),
         deleteNew  |-> review({"holds", "matches"}),
         restore    |-> review({"holds", "matches"}),
         apply      |-> [review({"image", "remaps", "routes", "matches"}) EXCEPT !.to = {"climbs"}],
         discard    |-> [review({"image", "matches"}) EXCEPT !.to = {"climbs"}]]

ClimbQueriesNoFeed ==                                                  \* mutant
    {"route-detail", "routes", "climb-logs", "logbook", "wall-stats"}

ClimbQueries == {"route-detail", "routes", "climb-logs", "activity", "logbook", "wall-stats"}

ClimbWrites ==
    [n \in {"createLog", "updateLog", "deleteLog"} |-> Write({"route"}, {"logs"}, ClimbQueries)]

VideoWrites ==
    [n \in {"createVideo", "deleteVideo"} |->
        Write({"route"}, {"videos"}, {"beta-videos", "routes", "route-detail"})]

RatingWrites ==
    [n \in {"setRating", "deleteRating"} |->
        Write({"route"}, {"ratings"}, {"route-detail", "routes", "wall-stats"})]

RouteWrites ==
    [createRoute |-> [Write({"create"}, {"routes"}, {"routes", "wall-stats"}) EXCEPT !.to = {"climbs"}],
     updateRoute |-> [Write({"create"}, {"routes"}, {"routes", "route-detail", "wall-stats"})
                        EXCEPT !.to = {"route"}],
     deleteRoute |-> [Write({"route"}, {"routes", "logs", "ratings", "videos", "circuits"},
                            {"routes", "circuits", "activity", "logbook", "wall-stats"})
                        EXCEPT !.removed = {"route-detail"},
                               !.to = {"climbs", "circuits", "logbook"}]]

CircuitWrites ==
    [createCircuit |-> Write({"route", "circuits"}, {"circuits"}, {"circuits"}),
     updateCircuit |-> Write({"circuits"}, {"circuits"}, {"circuits"}),
     deleteCircuit |-> Write({"circuits"}, {"circuits"}, {"circuits"}),
     setRoutes     |-> Write({"circuits"}, {"circuits"}, {"circuits"}),
     toggleRoute   |-> Write({"route"}, {"circuits"}, {"circuits"})]

HoldWrites ==
    [addHold    |-> Write({"climbs"}, {"holds"}, {"holds", "wall-stats"}),
     deleteHold |-> Write({"climbs"}, {"holds", "remaps"}, {"holds", "routes", "wall-stats"})]

ImageWrites ==
    LET upload(page) == Write({page}, {"image", "holds", "detection"}, {"wall-detail", "holds", "routes"})
    IN  [uploadFull    |-> upload("climbs"),
         uploadPartial |-> [upload("camera") EXCEPT !.to = {"climbs"}]]

NameWrites ==
    [renameWall |-> Write({"climbs"}, {"name"}, {"wall-detail", "walls"})]

WallWrites ==
    [createWall |-> Write({"walls"}, {"name"}, {"walls"}),
     deleteWall |-> [Write({"walls"}, {"name", "image", "holds", "remaps", "routes", "logs", "circuits"},
                           {"walls", "logbook"})
                        EXCEPT !.removed = {"wall-detail", "holds", "routes", "circuits"}]]

InviteWrites ==
    [acceptInvite |-> [Write({"invite"}, {"role"}, {"me", "walls"}) EXCEPT !.to = {"walls"}]]

ProfileWrites ==
    [n \in {"displayName", "avatar", "removeAvatar", "unlink"} |-> Write({"profile"}, {"profile"}, {})]

PasswordWrites == [changePassword |-> Write({"profile"}, {"profile"}, {"me"})]

Groups ==
    {ResetWrites, ClimbWrites, VideoWrites, RatingWrites, RouteWrites, CircuitWrites, HoldWrites,
     ImageWrites, NameWrites, WallWrites, InviteWrites, ProfileWrites, PasswordWrites}

Names == UNION {DOMAIN g : g \in Groups}

Writes == [n \in Names |-> (CHOOSE g \in Groups : n \in DOMAIN g)[n]]

Of(n) == Writes[n]

Touches(n, k) == Reads(k) \cap Of(n).writes # {}

\* Other writes change neither the entry nor what the server would answer.
Matters(n, k) == Touches(n, k) \/ k \in Of(n).stale \cup Of(n).removed

=============================================================================
