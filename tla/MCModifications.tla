-------------------------- MODULE MCModifications --------------------------
(***************************************************************************)
(* An arm on a servo on an enclosure, and a motor driver that is not       *)
(* mounted yet: families of engineering_graph/interfaces.py with their     *)
(* mechanical interfaces.                                                  *)
(***************************************************************************)
EXTENDS Modifications, TLC

CONSTANTS box, servo, arm, driver, m1, m2, m3, sg90

Interface(name, kind, compatible) ==
    [name |-> name, kind |-> kind, compatible |-> compatible]

MCOffers == [
    enclosure |-> {Interface("mount-face", "structural_face", {"fixed_mount"})},
    servo |-> {Interface("output", "rotating_output", {"rotating_input"}),
               Interface("body-mount", "fixed_mount", {"structural_face"})},
    simple_arm |-> {Interface("joint-input", "rotating_input", {"rotating_output", "hinge_axis"}),
                    Interface("end-face", "structural_face", {"fixed_mount", "structural_face"}),
                    Interface("fixed-input", "fixed_mount", {"structural_face"})},
    motor_driver |-> {Interface("body-mount", "fixed_mount", {"structural_face"})}]

MCCatalogue == (sg90 :> [family |-> "servo", sizes |-> [p \in {"width", "height"} |-> "small"]])

\* Size and setting, if the component has them
MCPart(family, size, setting) ==
    [family |-> family,
     meta |-> [p \in {"width", "height", "definition", "pinned", "setting", "protection"} |->
                 CASE p \in {"width", "height"} -> size
                   [] p = "setting" -> setting
                   [] OTHER -> None]]

MCConnection(source, i, target, j) ==
    [source |-> source, target |-> target, sourceInterface |-> i, targetInterface |-> j]

MCPlan == [
    parts |-> (box :> MCPart("enclosure", None, None)) @@ (servo :> MCPart("servo", "large", None))
              @@ (arm :> MCPart("simple_arm", None, None)) @@ (driver :> MCPart("motor_driver", None, "relay")),
    mates |-> (m1 :> [source |-> box, target |-> servo])
              @@ (m2 :> [source |-> servo, target |-> arm]),
    connections |-> (m1 :> MCConnection(box, "mount-face", servo, "body-mount"))
                    @@ (m2 :> MCConnection(servo, "output", arm, "joint-input"))]
=============================================================================
