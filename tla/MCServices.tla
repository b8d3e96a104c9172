------------------------------ MODULE MCServices ------------------------------
(* Small instances, for TLC, of the components whose safety is checked. They  *)
(* share no table, so a behaviour chooses one of them and the others stay as  *)
(* they began: the run's state space is the sum of the components'.           *)
EXTENDS MCRoleAdministration, MCActivity, MemberOffers, CampusCircle, Sessions,
        ConfigCenter, SchemaPlan, MigrationLifecycle

\* The comments' only target belongs to the first of the two users.
MCTargetOwner == [t \in Targets |-> CHOOSE u \in CommentUsers : TRUE]

VARIABLE focus   \* the component this behaviour is about

Components == {"roles", "activity", "errand", "comment", "circle", "sessions",
               "config", "plan", "migrations"}

servicesVars == <<focus, vars, activityVars, errandVars, commentVars, circleVars,
                  authVars, configVars, planVars, migrationVars>>

\* What the schema planner starts with where it is not looked at.
NoPlan ==
    /\ previous = SchemaOf(Tables, ParentEntity) /\ current = SchemaOf(Tables, ParentEntity)
    /\ declared = SetToSeq(Tables) /\ database = Plain(SchemaOf(Tables, ParentEntity))
    /\ todo = <<>> /\ phase = "done"

ServicesInit ==
    /\ focus \in Components
    /\ Init /\ (focus # "roles" => snapshotReads)
    /\ ActivityInit /\ ErrandInit /\ CommentInit /\ CircleInit /\ AuthInit /\ ConfigInit
    /\ LifecycleInit
    /\ IF focus = "plan" THEN PlanInit ELSE NoPlan

\* The variables of a component that is not looked at do not change.
Still(component, its) == IF focus = component THEN TRUE ELSE UNCHANGED its

ServicesNext ==
    /\ UNCHANGED focus
    /\ \/ focus = "roles" /\ Next
       \/ focus = "activity" /\ ActivityNext
       \/ focus = "errand" /\ ErrandNext
       \/ focus = "comment" /\ CommentNext
       \/ focus = "circle" /\ CircleNext
       \/ focus = "sessions" /\ AuthNext
       \/ focus = "config" /\ ConfigNext
       \/ focus = "plan" /\ PlanNext
       \/ focus = "migrations" /\ LifecycleNext
    /\ Still("roles", vars) /\ Still("activity", activityVars) /\ Still("errand", errandVars)
    /\ Still("comment", commentVars) /\ Still("circle", circleVars) /\ Still("sessions", authVars)
    /\ Still("config", configVars) /\ Still("plan", planVars) /\ Still("migrations", migrationVars)

ServicesSpec == ServicesInit /\ [][ServicesNext]_servicesVars

\* The rows, caches, files and local variables of the nine components have their types.
ServicesTypeOK ==
    /\ focus \in Components
    /\ TypeOK /\ ActivityTypeOK /\ ErrandTypeOK /\ CommentTypeOK /\ CircleTypeOK
    /\ AuthTypeOK /\ ConfigTypeOK /\ PlanTypeOK /\ LifecycleTypeOK
=============================================================================
