---- MODULE MCSensorManager ----
EXTENDS SensorManager
====
