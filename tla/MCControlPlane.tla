--------------------------- MODULE MCControlPlane ---------------------------
(* Values for model-checking ControlPlane. *)
EXTENDS ControlPlane

OneCapability == {"demo.report.v1"}
AllDemo == [w \in Workers |-> "demo.report.v1"]
TwoCapabilities == {"demo.report.v1", "cpu.text.sha256.v1"}
DemoThenCpu == [w \in Workers |-> IF w = 1 THEN "demo.report.v1" ELSE "cpu.text.sha256.v1"]
OneSecond == [w \in Workers |-> 1]
=============================================================================
