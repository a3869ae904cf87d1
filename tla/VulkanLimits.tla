---------------------------- MODULE VulkanLimits ----------------------------
(* The two sizes of the Vulkan backend that its frames and its objects are   *)
(* counted by (renderer/src/graphics/VulkanBackend.hpp).                     *)
EXTENDS Naturals

CONSTANTS kFramesInFlight,    \* frames the CPU may be ahead of the GPU
          kReadbackRingSize   \* readback slots the frames write in turn

ASSUME LimitsAssumption ==
    kFramesInFlight \in Nat \ {0} /\ kReadbackRingSize \in Nat \ {0}
=============================================================================
