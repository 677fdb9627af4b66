SPECIFICATION Spec
CONSTANT Ports <- MCPorts
INVARIANTS TypeOK HintsComeFirst NeverTwice
PROPERTIES EveryPortScanned
