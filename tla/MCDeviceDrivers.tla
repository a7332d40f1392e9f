-------------------------- MODULE MCDeviceDrivers ---------------------------
EXTENDS DeviceDrivers

Types == INSTANCE OpcUaTypes
MCSpecs == Types!SampleSpecs
=============================================================================
