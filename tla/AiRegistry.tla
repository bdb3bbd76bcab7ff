-------------------------------- MODULE AiRegistry --------------------------------
(***************************************************************************)
(* The model registry of the AI runtime (ai/src/ai_model_registry.c) as    *)
(* its user of IREE: ai_runtime_init creates one object after the other,   *)
(* each of which may fail, ai_infer_sync two lists for a call, and         *)
(* everything that was created has to be released once.  What IREE does    *)
(* is external: an object counts the references to it, and a creation that *)
(* fails leaves nothing behind.  One task uses the registry, as in apps/.  *)
(***************************************************************************)
EXTENDS Integers

CONSTANTS
  Model,        \* g_emitc_models
  HalModes      \* the modules compiled in, AI_IREE_ENABLE_..._HAL

Hal == {"static", "inline"}
ASSUME AiAssumption == HalModes \subseteq SUBSET Hal

\* What the registry's fields, and the local variables of a call, may refer to.
Resource == {"instance", "loader", "device", "inline allocator", "context"} \cup Model
Temporary == {"static module", "inline module", "inputs", "outputs"}
Object == Resource \cup Temporary
ASSUME ObjectsAreApart ==
  Model \cap {"instance", "loader", "device", "inline allocator", "context",
              "static module", "inline module", "inputs", "outputs"} = {}

VARIABLES
  hal,          \* the build
  backend,      \* hal_backend of each model's descriptor
  phase,        \* what ai_runtime_init or ai_infer_sync creates next; "down" and "up"
  field,        \* the objects the registry's fields refer to
  local,        \* the objects local variables of the present call refer to
  refs,         \* the references to each object that were taken and not released
  unloaded      \* the models ai_runtime_init has not come to

aivars == <<hal, backend, phase, field, local, refs, unloaded>>

AiInit ==
  /\ hal \in HalModes /\ backend \in [Model -> Hal]
  /\ phase = "down" /\ field = {} /\ local = {}
  /\ refs = [o \in Object |-> 0] /\ unloaded = Model

\* The models for one of the modules.
ModelsFor(h) == { m \in Model : h = IF "inline" \in hal THEN backend[m] ELSE "static" }

Plus(set) == [o \in Object |-> IF o \in set THEN refs[o] + 1 ELSE refs[o]]
Minus(set) == [o \in Object |-> IF o \in set THEN refs[o] - 1 ELSE refs[o]]

-----------------------------------------------------------------------------
(* ai_runtime_init.                                                        *)

\* An object is created, and a field or a local variable refers to it.
IntoField(o, then) ==
  /\ refs' = Plus({o}) /\ field' = field \cup {o} /\ phase' = then
  /\ UNCHANGED <<hal, backend, local, unloaded>>

IntoLocal(o, then) ==
  /\ refs' = Plus({o}) /\ local' = local \cup {o} /\ phase' = then
  /\ UNCHANGED <<hal, backend, field, unloaded>>

\* ai_registry_release_resources, which forgets what it releases, and the return: the
\* local variables are gone.
ReleaseResources ==
  /\ refs' = Minus(field) /\ field' = {} /\ local' = {}
  /\ phase' = "down" /\ unloaded' = Model
  /\ UNCHANGED <<hal, backend>>

AfterStatic == IF ModelsFor("inline") # {} THEN "inline allocator" ELSE "models"
AfterTypes == IF ModelsFor("static") # {} THEN "loader" ELSE AfterStatic

\* The types of the HAL are registered with the new instance, or fail to be.
CreateInstance == phase = "down" /\ IntoField("instance", "types")
RegisterTypes ==
  /\ phase = "types"
  /\ \/ phase' = AfterTypes /\ UNCHANGED <<hal, backend, field, local, refs, unloaded>>
     \/ ReleaseResources

\* The loader for the libraries of the models, in a build that has it.
CreateLoader ==
  phase = "loader" /\ (("static" \in hal /\ IntoField("loader", "device")) \/ ReleaseResources)

\* The device with its allocator, which is the device's only from then on.
CreateDevice == phase = "device" /\ (IntoField("device", "static module") \/ ReleaseResources)

CreateStaticModule ==
  phase = "static module" /\ (IntoLocal("static module", AfterStatic) \/ ReleaseResources)

CreateInlineAllocator ==
  /\ phase = "inline allocator"
  /\ IntoField("inline allocator", "inline module") \/ ReleaseResources

CreateInlineModule ==
  phase = "inline module" /\ (IntoLocal("inline module", "models") \/ ReleaseResources)

\* Mutation: the field keeps a module that was released for want of its function.
MutPassesOver(m) == refs' = refs /\ field' = field \cup {m}

\* A model whose module cannot be created, or whose function is not found in it, is
\* passed over; its module is released.
PassesOver(m) == refs' = refs /\ field' = field

LoadModel(m) ==
  /\ phase = "models" /\ m \in unloaded
  /\ unloaded' = unloaded \ {m}
  /\ (refs' = Plus({m}) /\ field' = field \cup {m}) \/ PassesOver(m)
  /\ UNCHANGED <<hal, backend, phase, local>>

\* The context refers to all modules from then on; the local references are given up
\* whether it was created or not.
CreateContext ==
  /\ phase = "models" /\ unloaded = {}
  /\ \/ /\ refs' = [o \in Object |-> IF o = "context" THEN refs[o] + 1
                                      ELSE IF o \in local THEN refs[o] - 1 ELSE refs[o]]
        /\ field' = field \cup {"context"} /\ phase' = "up"
        /\ UNCHANGED unloaded
     \/ /\ refs' = Minus(field \cup local)
        /\ field' = {} /\ phase' = "down" /\ unloaded' = Model
  /\ local' = {}
  /\ UNCHANGED <<hal, backend>>

\* ai_runtime_deinit
RuntimeDeinit == phase = "up" /\ ReleaseResources

-----------------------------------------------------------------------------
(* ai_infer_sync.                                                          *)

CreateInputs == phase = "up" /\ IntoLocal("inputs", "inputs")

\* The cleanup, with a result or without: lists release the views they hold.
Cleanup ==
  /\ refs' = Minus(local) /\ local' = {} /\ phase' = "up"
  /\ UNCHANGED <<hal, backend, field, unloaded>>

\* Each input is put into a view, and the view moved into the list; then the list for
\* outputs is created.  The views are left out: one exists at a time, the move gives it
\* to the list or, where it fails, it is released before the same clean-up.
CreateOutputs == phase = "inputs" /\ (IntoLocal("outputs", "outputs") \/ Cleanup)

\* The invocation, and the results copied out of views that are retained meanwhile.
Invoke == phase = "outputs" /\ Cleanup

AiNext ==
  \/ CreateInstance \/ RegisterTypes \/ CreateLoader \/ CreateDevice \/ CreateStaticModule
  \/ CreateInlineAllocator \/ CreateInlineModule
  \/ \E m \in Model : LoadModel(m)
  \/ CreateContext \/ CreateInputs \/ CreateOutputs \/ Invoke
  \/ RuntimeDeinit

AiSpec == AiInit /\ [][AiNext]_aivars
-----------------------------------------------------------------------------
(* Properties.                                                             *)

\* Wherever a step of ai_runtime_init or ai_infer_sync fails, every reference that was
\* taken is in a field or a variable that is still there, once, so that it will be
\* released once; and after a failure or ai_runtime_deinit there is none.
ReferencesBalance ==
  /\ \A o \in Object : refs[o] = IF o \in field \cup local THEN 1 ELSE 0
  /\ phase = "down" => field \cup local = {}
=============================================================================
